---- MODULE Spec2Model ----
(***************************************************************************)
(* Task orchestration of the scraping subscriber: the dedup cache          *)
(* (manager/cache_manager.py), the submission front door (main.py) and the *)
(* RabbitMQ message listener (manager/listeners/message_listener.py).      *)
(*                                                                         *)
(* Text is modelled as sequences of one-character strings so that          *)
(* str.upper(), the category pattern and the f-string cache key are        *)
(* computed, not assumed.  Time is time.time() in seconds.                 *)
(***************************************************************************)
EXTENDS Integers, Sequences, FiniteSets, TLC

VARIABLES
    now,          \* time.time(), seconds
    cache,        \* CacheManager._cache: key -> CacheEntry
    hist,         \* the last two direct calls of the cache API (CacheSpec)
    tasks_queue,  \* broker queue "scraping_queue": message bodies, head first
    api,          \* the create_scraping_task handler running on the event loop
    apiSeq,       \* number of submissions the front door has started
    nextId,       \* number of uuid4 task ids drawn so far
    bg,           \* scheduled process_scraping_task background tasks
    lpc,          \* the Listener thread's position in _process_message
    lmsg,         \* the delivery the Listener holds (prefetch_count = 1)
    ltask,        \* the ScrapingTask built from that delivery
    lres,         \* what _process_task_sync computed before its cache update
    lcalls,       \* calls made by _process_message for the delivery, in order
    ldone,        \* _process_message has returned or raised for the delivery
    ltag,         \* delivery tag of the delivery
    published,    \* messages the external publisher has sent so far
    rcfg,         \* RateLimiter.config / RetryHandler.config
    sem,          \* RateLimiter.semaphore._value
    domain_limits,\* RateLimiter.domain_limits
    callers,      \* coroutines calling ScrapingRateLimiter.execute_request
    permitted,    \* per domain, the times of the latest permitted acquires
    rstarted,     \* number of execute_request calls started
    rticks,       \* number of clock steps taken while the limiter runs
    retry,        \* one RetryHandler.execute_with_retry call
    deco,         \* one call of a handle_scraping_exceptions wrapper
    results_queue,\* broker queue "scraping_results", head first
    failed_queue, \* broker queue "scraping_failed", head first
    qlast,        \* the last RabbitMQManager call: arguments, result, publishes
    qcount,       \* number of RabbitMQManager calls made
    lock,         \* CacheManager._lock: the thread holding it, or 0
    threads,      \* threads calling the cache: position and local variables
    adapt,        \* one call of MessageListener._adapt_message_format
    request_stats \* ScrapingRateLimiter.stats

limiterVars == <<rcfg, sem, domain_limits, callers, permitted, rstarted,
                 rticks, retry>>

laterVars == <<deco, results_queue, failed_queue, qlast, qcount, lock,
               threads, adapt, request_stats>>

orchVars == <<cache, hist, tasks_queue, api, apiSeq, nextId, bg,
              lpc, lmsg, ltask, lres, lcalls, ldone, ltag, published>>

vars == <<now, cache, hist, tasks_queue, api, apiSeq, nextId, bg,
          lpc, lmsg, ltask, lres, lcalls, ldone, ltag, published,
          rcfg, sem, domain_limits, callers, permitted, rstarted, rticks,
          retry, deco, results_queue, failed_queue, qlast, qcount, lock,
          threads, adapt, request_stats>>

-----------------------------------------------------------------------------
(* Bounds of the model *)

MaxTicks == 2
MaxPage == 1
MaxSubmissions == 2
MaxPublished == 1
MaxProducts == 1
MaxHistOps == 3
MaxCallers == 2
MaxRequests == 3
MaxRpm == 2
MaxConcurrent == 2
MaxRateTicks == 3
MaxAttempts == 3
MaxRetries == 2
MaxQueueOps == 2
MaxQueued == 2
MaxThreadCalls == 2
MaxAdaptPage == 2
MaxOperationAttempts == 2

(* Program constants *)

TtlHours == 1
SecondsPerHour == 3600
DefaultPage == 1
DefaultMaxProducts == 50
PrefetchCount == 1
WindowSeconds == 60
MaxRequestsPerSecond == 1
EpochStart == 1000

TickSeconds == TtlHours * SecondsPerHour
MaxTime == MaxTicks * TickSeconds

None == [none |-> TRUE]

-----------------------------------------------------------------------------
(* Text *)

UpperLetters == {"M", "L", "U", "A"}
DigitChars == {"0", "1", "2", "3", "4", "5", "6", "7", "8", "9"}

\* str.upper() on one character
UpperChar(c) ==
    CASE c = "m" -> "M"
      [] c = "l" -> "L"
      [] c = "u" -> "U"
      [] c = "a" -> "A"
      [] c = "p" -> "P"
      [] c = "g" -> "G"
      [] c = "e" -> "E"
      [] OTHER -> c

Upper(s) == [i \in DOMAIN s |-> UpperChar(s[i])]

DigitStr(d) ==
    CASE d = 0 -> "0" [] d = 1 -> "1" [] d = 2 -> "2" [] d = 3 -> "3"
      [] d = 4 -> "4" [] d = 5 -> "5" [] d = 6 -> "6" [] d = 7 -> "7"
      [] d = 8 -> "8" [] d = 9 -> "9"

RECURSIVE IntToStr(_)
\* str(n) of a non-negative int
IntToStr(n) ==
    IF n < 10 THEN <<DigitStr(n)>>
    ELSE IntToStr(n \div 10) \o <<DigitStr(n % 10)>>

\* re.match(r'^ML[A-Z]\d{3,4}$', s)
MatchesCategoryPattern(s) ==
    /\ Len(s) \in {6, 7}
    /\ s[1] = "M"
    /\ s[2] = "L"
    /\ s[3] \in UpperLetters
    /\ \A i \in 4..Len(s) : s[i] \in DigitChars

\* the categories that requests and messages carry
UpperMLU == <<"M", "L", "U", "1", "0", "7">>
LowerMLU == <<"m", "l", "u", "1", "0", "7">>
UpperMLA == <<"M", "L", "A", "1", "0", "7">>

RawCategories == {UpperMLU, LowerMLU}

\* the categories the cache API is called with directly
DirectCategories == {UpperMLU, LowerMLU, UpperMLA}

Pages == 1..MaxPage

-----------------------------------------------------------------------------
(* CacheManager *)

TtlSeconds == TtlHours * SecondsPerHour

GenerateKeyCaseSensitive(category, page) ==
    category \o <<":", "p", "a", "g", "e", ":">> \o IntToStr(page)

\* _generate_key: f"{category.upper()}:page:{page}"
GenerateKey(category, page) ==
    Upper(category) \o <<":", "p", "a", "g", "e", ":">> \o IntToStr(page)

\* _is_expired: time.time() > entry.expires_at
IsExpired(entry, t) == t > entry.expires_at

\* _cleanup_expired: the map without the entries with current_time > expires_at
CleanupExpired(c, t) ==
    [k \in {k \in DOMAIN c : ~(t > c[k].expires_at)} |-> c[k]]

CacheGetAlwaysExpired(c, category, page, t) ==
    [result |-> None, cache |-> CleanupExpired(c, t)]

CacheGetRefreshesExpiry(c, category, page, t) ==
    LET key == GenerateKey(category, page)
        swept == CleanupExpired(c, t)
    IN  IF key \in DOMAIN swept
        THEN [result |-> swept[key].data,
              cache |-> [swept EXCEPT ![key].expires_at = t + TtlSeconds]]
        ELSE [result |-> None, cache |-> swept]

\* get: the returned response (or None) and the map it leaves behind
CacheGet(c, category, page, t) ==
    LET key == GenerateKey(category, page)
        swept == CleanupExpired(c, t)
    IN  IF key \in DOMAIN swept
        THEN IF ~IsExpired(swept[key], t)
             THEN [result |-> swept[key].data, cache |-> swept]
             ELSE [result |-> None,
                   cache |-> [k \in DOMAIN swept \ {key} |-> swept[k]]]
        ELSE [result |-> None, cache |-> swept]

CacheSetKeepsExisting(c, category, page, response, t) ==
    LET key == GenerateKey(category, page)
        entry == [data |-> response, created_at |-> t,
                  expires_at |-> t + TtlSeconds]
    IN  [k \in DOMAIN c \cup {key} |-> IF k \in DOMAIN c THEN c[k] ELSE entry]

\* set: the map after storing response under the key of (category, page)
CacheSet(c, category, page, response, t) ==
    LET key == GenerateKey(category, page)
        entry == [data |-> response, created_at |-> t,
                  expires_at |-> t + TtlSeconds]
    IN  [k \in DOMAIN c \cup {key} |-> IF k = key THEN entry ELSE c[k]]

\* invalidate: whether an entry was removed, and the map left behind
CacheInvalidate(c, category, page) ==
    LET key == GenerateKey(category, page)
    IN  IF key \in DOMAIN c
        THEN [result |-> TRUE, cache |-> [k \in DOMAIN c \ {key} |-> c[k]]]
        ELSE [result |-> FALSE, cache |-> c]

\* clear
CacheClear(c) == [k \in {} |-> None]

\* list_keys: sweeps, then lists the keys
CacheListKeys(c, t) ==
    [result |-> DOMAIN CleanupExpired(c, t), cache |-> CleanupExpired(c, t)]

\* get_stats: sweeps, then counts the entries
CacheGetStats(c, t) ==
    LET swept == CleanupExpired(c, t)
    IN  [result |-> [total_entries |-> Cardinality(DOMAIN swept),
                     ttl_seconds |-> TtlSeconds],
         cache |-> swept]

EmptyCache == [k \in {} |-> None]

-----------------------------------------------------------------------------
(* models/scraping_models.py *)

PENDING == "pending"
COMPLETED == "completed"

\* the base_url the front door builds its urls from starts with http
MakeUrl(category, page) == [http |-> TRUE, category |-> category, page |-> page]

\* ScrapingRequest and its validators: url starts with http, the upper-cased
\* category matches the pattern (and is stored upper-cased), page >= 1,
\* 1 <= max_products <= 1000
ScrapingRequestValid(r) ==
    /\ {"url", "category", "page", "max_products"} \subseteq DOMAIN r
    /\ r.url.http
    /\ MatchesCategoryPattern(Upper(r.category))
    /\ ~(r.page < 1)
    /\ ~(r.max_products < 1 \/ r.max_products > 1000)

ScrapingRequest(r) ==
    [url |-> r.url, category |-> Upper(r.category), page |-> r.page,
     max_products |-> r.max_products]

DictGetAlwaysDefault(d, k, default) == default

\* dict.get(k, default)
DictGet(d, k, default) == IF k \in DOMAIN d THEN d[k] ELSE default

\* ScrapingTask(**d): id, request, status, created_at are required
ScrapingTaskValid(d) ==
    /\ {"id", "request", "status", "created_at"} \subseteq DOMAIN d
    /\ ScrapingRequestValid(d.request)

ScrapingTask(d) ==
    [id |-> d.id, request |-> ScrapingRequest(d.request), status |-> d.status,
     created_at |-> d.created_at,
     started_at |-> DictGet(d, "started_at", None),
     completed_at |-> DictGet(d, "completed_at", None),
     error_message |-> DictGet(d, "error_message", None),
     result_file |-> DictGet(d, "result_file", None)]

ScrapingResponse(task_id, status, message, url, category, page, max_products) ==
    [task_id |-> task_id, status |-> status, message |-> message, url |-> url,
     category |-> category, page |-> page, max_products |-> max_products]

-----------------------------------------------------------------------------
(* manager/listeners/message_listener.py *)

\* _adapt_message_format: canonical messages pass unchanged, legacy messages
\* (url and category) are rebuilt, anything else is a ValueError
AdaptMessageFormat(message_data, t) ==
    IF {"id", "request", "status", "created_at"} \subseteq DOMAIN message_data
    THEN [ok |-> TRUE, value |-> message_data]
    ELSE IF {"url", "category"} \subseteq DOMAIN message_data
    THEN [ok |-> TRUE,
          value |->
            [id |-> DictGet(message_data, "id", <<"auto", t>>),
             request |->
               [url |-> message_data.url,
                category |-> message_data.category,
                page |-> DictGet(message_data, "page", DefaultPage),
                max_products |->
                    DictGet(DictGet(message_data, "metadata", [x \in {} |-> 0]),
                            "max_products", DefaultMaxProducts)],
             status |-> PENDING,
             created_at |-> DictGet(message_data, "timestamp", t)]]
    ELSE [ok |-> FALSE, error |-> "ValueError"]

\* lines 117-124 of _process_message: json.loads, _adapt_message_format and
\* ScrapingTask(**adapted_message); ok is FALSE when one of them raises
ParseTask(body, t) ==
    IF ~body.json THEN [ok |-> FALSE, error |-> "JSONDecodeError"]
    ELSE LET adapted == AdaptMessageFormat(body.obj, t)
         IN  IF ~adapted.ok THEN adapted
             ELSE IF ~ScrapingTaskValid(adapted.value)
             THEN [ok |-> FALSE, error |-> "ValidationError"]
             ELSE [ok |-> TRUE, task |-> ScrapingTask(adapted.value)]

\* the except block of _process_message (lines 149-154): its first statement
\* formats task.id; when the try block failed before line 124 bound `task`,
\* that raises UnboundLocalError out of the handler and basic_nack is not reached
ExceptHandlerCalls(task_bound) ==
    IF task_bound THEN <<"basic_nack">> ELSE <<"raise">>

\* lines 131-137: what _process_message does on the cached response
ProcessMessageOnLookupNeverHit(cached) == <<"get">>

ProcessMessageOnLookupAlwaysHit(cached) == <<"get", "basic_ack">>

\* _process_message after cache_manager.get (lines 131-142)
ProcessMessageOnLookup(cached) ==
    IF cached # None THEN <<"get", "basic_ack">> ELSE <<"get">>

\* the response _process_task_sync caches on success (lines 228-236)
ListenerCompletedResponse(task, n) ==
    ScrapingResponse(task.id, COMPLETED,
                     [text |-> "completed by MessageListener", count |-> n],
                     task.request.url, task.request.category,
                     task.request.page, task.request.max_products)

ProcessTaskSyncCacheNoInvalidate(c, task, res, t) ==
    IF res.kind = "saved"
    THEN CacheSet(c, task.request.category, task.request.page,
                  ListenerCompletedResponse(task, res.n), t)
    ELSE c

\* the cache after _process_task_sync (lines 226-246): COMPLETED is stored when
\* _save_products returned True, nothing happens when it returned False, and
\* the except block invalidates the key when run_main raised
ProcessTaskSyncCache(c, task, res, t) ==
    CASE res.kind = "saved" ->
            CacheSet(c, task.request.category, task.request.page,
                     ListenerCompletedResponse(task, res.n), t)
      [] res.kind = "save_failed" -> c
      [] res.kind = "extract_failed" ->
            CacheInvalidate(c, task.request.category, task.request.page).cache

ProcessTaskSyncCallsNoSet(res) ==
    IF res.kind = "extract_failed" THEN <<"invalidate">> ELSE <<>>

\* the cache calls _process_task_sync makes for the three outcomes
ProcessTaskSyncCalls(res) ==
    CASE res.kind = "saved" -> <<"set">>
      [] res.kind = "save_failed" -> <<>>
      [] res.kind = "extract_failed" -> <<"invalidate">>

\* _process_task_sync catches every Exception itself and returns normally, so
\* line 145 of _process_message acknowledges after each of the three outcomes
ProcessMessageAfterTask(res) == <<"basic_ack">>

\* the outcomes of run_main and _save_products (lines 216-224)
ProcessOutcomes ==
    {[kind |-> "extract_failed", n |-> 0]}
    \cup {[kind |-> k, n |-> n] : k \in {"saved", "save_failed"}, n \in 0..MaxProducts}

\* the collaborator calls made for an outcome, and the ones that raised
OutcomeCalls(res) ==
    CASE res.kind = "extract_failed" ->
            <<"process", "run_main", "run_main_raised">>
      [] res.kind = "saved" ->
            <<"process", "run_main", "insert_products">>
      [] res.kind = "save_failed" ->
            <<"process", "run_main", "insert_products", "insert_products_raised">>

\* _process_message up to the cache lookup; on a hit it acknowledges and returns
\* the deliveries the consumer has not yet acked or nacked (auto_ack=False)
Unacked(pc) == IF pc = "idle" THEN 0 ELSE 1

BrokerDeliversAlways(unacked) == TRUE

\* basic_qos(prefetch_count=1): the broker delivers the next message only
\* while fewer than prefetch_count deliveries are unacknowledged
BrokerDelivers(unacked) == unacked < PrefetchCount

ListenerReceive ==
    /\ BrokerDelivers(Unacked(lpc))
    /\ tasks_queue # <<>>
    /\ LET body == Head(tasks_queue)
           parsed == ParseTask(body, now)
       IN  /\ tasks_queue' = Tail(tasks_queue)
           /\ ltag' = ltag + 1
           /\ lres' = None
           /\ IF ~parsed.ok
              THEN /\ lmsg' = body
                   /\ ltask' = None
                   /\ lcalls' = <<parsed.error>> \o ExceptHandlerCalls(FALSE)
                   /\ ldone' = TRUE
                   /\ lpc' = "crashed"
                   /\ cache' = cache
              ELSE LET got == CacheGet(cache, parsed.task.request.category,
                                       parsed.task.request.page, now)
                       calls == ProcessMessageOnLookup(got.result)
                       hit == calls # <<"get">>
                   IN  /\ cache' = got.cache
                       /\ lcalls' = calls
                       /\ ldone' = hit
                       /\ lpc' = IF hit THEN "idle" ELSE "process"
                       /\ lmsg' = IF hit THEN None ELSE body
                       /\ ltask' = IF hit THEN None ELSE parsed.task
    /\ UNCHANGED <<limiterVars, laterVars, now, hist, api, apiSeq, nextId, bg, published>>

\* _process_task_sync: is_available (ScraperService sets scraper_available
\* to True at construction), run_main and _save_products
ListenerProcess ==
    /\ lpc = "process"
    /\ \E res \in ProcessOutcomes :
          /\ lres' = res
          /\ lcalls' = lcalls \o OutcomeCalls(res)
    /\ lpc' = "finish"
    /\ UNCHANGED <<limiterVars, laterVars, now, cache, hist, tasks_queue, api, apiSeq, nextId, bg,
                   lmsg, ltask, ldone, ltag, published>>

\* the end of _process_task_sync (its cache update) and of _process_message
ListenerFinish ==
    /\ lpc = "finish"
    /\ cache' = ProcessTaskSyncCache(cache, ltask, lres, now)
    /\ lcalls' = lcalls \o ProcessTaskSyncCalls(lres) \o ProcessMessageAfterTask(lres)
    /\ ldone' = TRUE
    /\ lpc' = "idle"
    /\ lmsg' = None
    /\ ltask' = None
    /\ lres' = None
    /\ UNCHANGED <<limiterVars, laterVars, now, hist, tasks_queue, api, apiSeq, nextId, bg,
                   ltag, published>>

-----------------------------------------------------------------------------
(* main.py: the submission front door *)

NoId == <<"none", 0>>

\* validate_category: the pattern matched against category.upper()
ValidateCategory(category) == MatchesCategoryPattern(Upper(category))

\* pending_response (lines 226-234)
PendingResponse(task_id, request, url) ==
    ScrapingResponse(task_id, PENDING, [text |-> "created", count |-> 0], url,
                     request.category, request.page, request.max_products)

CompletedResponseStaysPending(task_id, request, url, n) ==
    PendingResponse(task_id, request, url)

\* completed_response of process_scraping_task (lines 375-383)
CompletedResponse(task_id, request, url, n) ==
    ScrapingResponse(task_id, COMPLETED, [text |-> "completed", count |-> n],
                     url, request.category, request.page, request.max_products)

\* the body add_task publishes: json.dumps(task.dict())
TaskBody(task) == [json |-> TRUE, obj |-> task]

IdleApi == [pc |-> "idle", raw |-> <<>>, request |-> None, task_id |-> NoId,
            url |-> None, response |-> None, hit |-> FALSE]

\* create_scraping_task up to add_task (lines 186-221): the cache lookup and,
\* on a miss, the publication of the new task.  The handler runs on the event
\* loop thread; the Listener thread runs beside it.
CreateScrapingTaskBegin ==
    /\ api.pc = "idle"
    /\ apiSeq < MaxSubmissions
    /\ \E category \in RawCategories, page \in Pages :
          LET request == ScrapingRequest([url |-> MakeUrl(category, page),
                                          category |-> category, page |-> page,
                                          max_products |-> DefaultMaxProducts])
              got == CacheGet(cache, request.category, request.page, now)
              url == MakeUrl(request.category, request.page)
              task_id == <<"uuid", nextId + 1>>
              task == ScrapingTask([id |-> task_id, request |-> request,
                                    status |-> PENDING, created_at |-> now])
          IN  /\ ValidateCategory(request.category)
              /\ cache' = got.cache
              /\ IF got.result # None
                 THEN /\ api' = [IdleApi EXCEPT !.raw = category,
                                                !.request = request,
                                                !.response = got.result,
                                                !.hit = TRUE]
                      /\ UNCHANGED <<tasks_queue, nextId>>
                 ELSE /\ api' = [pc |-> "publishing", raw |-> category,
                                 request |-> request, task_id |-> task_id,
                                 url |-> url, response |-> None, hit |-> FALSE]
                      /\ tasks_queue' = Append(tasks_queue, TaskBody(task))
                      /\ nextId' = nextId + 1
    /\ apiSeq' = apiSeq + 1
    /\ UNCHANGED <<limiterVars, laterVars, now, hist, bg, lpc, lmsg, ltask, lres, lcalls, ldone, ltag,
                   published>>

\* the rest of create_scraping_task (lines 216-240): the background task is
\* scheduled, the PENDING response is cached and returned
CreateScrapingTaskFinish ==
    /\ api.pc = "publishing"
    /\ LET pending_response == PendingResponse(api.task_id, api.request, api.url)
       IN  /\ cache' = CacheSet(cache, api.request.category, api.request.page,
                                pending_response, now)
           /\ api' = [api EXCEPT !.pc = "idle", !.response = pending_response]
    /\ bg' = bg \cup {[task_id |-> api.task_id, request |-> api.request,
                       url |-> api.url, scraped |-> FALSE, n |-> 0]}
    /\ UNCHANGED <<limiterVars, laterVars, now, hist, tasks_queue, apiSeq, nextId, lpc, lmsg, ltask,
                   lres, lcalls, ldone, ltag, published>>

\* process_scraping_task (lines 349-398), run by the event loop after the
\* response was sent.  ScraperService.scrape_products catches its own errors
\* and reports products_count = 0, and the queue manager's updates return
\* False instead of raising, so the task reaches its cache update.
ProcessScrapingTaskScrape ==
    /\ api.pc = "idle"
    /\ \E b \in bg, n \in 0..MaxProducts :
          /\ ~b.scraped
          /\ bg' = (bg \ {b}) \cup {[b EXCEPT !.scraped = TRUE, !.n = n]}
    /\ UNCHANGED <<limiterVars, laterVars, now, cache, hist, tasks_queue, api, apiSeq, nextId, lpc,
                   lmsg, ltask, lres, lcalls, ldone, ltag, published>>

\* lines 371-388: the COMPLETED response replaces the cache entry
ProcessScrapingTaskFinish ==
    /\ api.pc = "idle"
    /\ \E b \in bg :
          /\ b.scraped
          /\ cache' = CacheSet(cache, b.request.category, b.request.page,
                               CompletedResponse(b.task_id, b.request, b.url, b.n),
                               now)
          /\ bg' = bg \ {b}
    /\ UNCHANGED <<limiterVars, laterVars, now, hist, tasks_queue, api, apiSeq, nextId, lpc, lmsg,
                   ltask, lres, lcalls, ldone, ltag, published>>

-----------------------------------------------------------------------------
(* publisher/main.py and other producers of the tasks queue *)

NotJsonBody == [json |-> FALSE]

UnknownBody == [json |-> TRUE, obj |-> [unknown_field |-> "unknown_value"]]

\* the message publisher/main.py builds (lines 116-123)
LegacyBody(category, page, t) ==
    [json |-> TRUE,
     obj |-> [url |-> MakeUrl(category, page), category |-> category,
              page |-> page, priority |-> 5,
              metadata |-> [max_products |-> 25], timestamp |-> t]]

\* a legacy message with only url and category
MinimalLegacyBody(category) ==
    [json |-> TRUE, obj |-> [url |-> MakeUrl(category, 1), category |-> category]]

PublisherBodies(t) ==
    {NotJsonBody, UnknownBody}
    \cup {LegacyBody(LowerMLU, page, t) : page \in 0..MaxPage}
    \cup {MinimalLegacyBody(UpperMLU)}

PublisherSend ==
    /\ published < MaxPublished
    /\ \E body \in PublisherBodies(now) : tasks_queue' = Append(tasks_queue, body)
    /\ published' = published + 1
    /\ UNCHANGED <<limiterVars, laterVars, now, cache, hist, api, apiSeq, nextId, bg, lpc, lmsg, ltask,
                   lres, lcalls, ldone, ltag>>

\* time passes
Tick ==
    /\ now < MaxTime
    /\ now' = now + TickSeconds
    /\ UNCHANGED <<limiterVars, laterVars, cache, hist, tasks_queue, api, apiSeq, nextId, bg, lpc, lmsg,
                   ltask, lres, lcalls, ldone, ltag, published>>

-----------------------------------------------------------------------------
(* scraper/utils/rate_limiter.py: RateLimiter and ScrapingRateLimiter.       *)
(* Callers are coroutines of one event loop: a step runs from one await to  *)
(* the next.  asyncio.sleep(d) lets the caller continue at any time that is *)
(* at least d later, which also covers the jitter added to the spacing     *)
(* delay.                                                                   *)

Callers == 1..MaxCallers
Domains == {"a.com", "b.com"}

RateLimitConfigs ==
    [requests_per_minute : 1..MaxRpm, max_concurrent : 1..MaxConcurrent]

\* min_delay = 1.0 / max_requests_per_second
MinDelay == 1 \div MaxRequestsPerSecond

IdleCaller ==
    [pc |-> "idle", domain |-> "", time_since_last |-> 0, wake |-> 0,
     acquires |-> 0, releases |-> 0, outcome |-> "", invocations |-> 0,
     last |-> ""]

\* asyncio.Semaphore: acquire suspends while no permit is left
SemaphoreNeverLocked(value) == FALSE

SemaphoreLocked(value) == value = 0

SemaphoreAcquire(value) == value - 1

SemaphoreReleaseNothing(value) == value

SemaphoreRelease(value) == value + 1

\* domain_limits[domain], created on first use with minute_start = time.time()
DomainLimit(limits, domain, t) ==
    IF domain \in DOMAIN limits THEN limits[domain]
    ELSE [last_request_time |-> 0, request_count |-> 0, minute_start |-> t]

TimeSinceLastGlobal(dl, t) ==
    LET last(d) == domain_limits[d].last_request_time
    IN  IF \E d \in DOMAIN domain_limits :
               \A e \in DOMAIN domain_limits : last(d) >= last(e)
        THEN t - last(CHOOSE d \in DOMAIN domain_limits :
                         \A e \in DOMAIN domain_limits : last(d) >= last(e))
        ELSE t

\* time_since_last = current_time - domain_limit["last_request_time"]
TimeSinceLast(dl, t) == t - dl.last_request_time

\* the window test: a window older than 60 s restarts with a zero counter
WindowRolled(dl, t) ==
    IF t - dl.minute_start >= WindowSeconds
    THEN [dl EXCEPT !.request_count = 0, !.minute_start = t]
    ELSE dl

\* wait_time = 60 - (current_time - minute_start)
MinuteWait(dl, t) == WindowSeconds - (t - dl.minute_start)

\* delay = min_delay - time_since_last
SpacingDelay(time_since_last) == MinDelay - time_since_last

\* after the sleep for the next minute: counter zeroed, window restarted
WindowRestarted(dl, t) == [dl EXCEPT !.request_count = 0, !.minute_start = t]

\* the end of acquire: last_request_time = time.time(), request_count += 1
RequestPermitted(dl, t) ==
    [dl EXCEPT !.last_request_time = t, !.request_count = @ + 1]

WithLimit(limits, domain, dl) ==
    [d \in DOMAIN limits \cup {domain} |-> IF d = domain THEN dl ELSE limits[d]]

\* the permitted times of a domain, the latest MaxRpm + 1 of them
Remember(times, t) ==
    IF Len(times) <= MaxRpm THEN Append(times, t)
    ELSE Append(Tail(times), t)

\* acquire from the spacing test to its return
AcquireSpacing(c, domain, dl, time_since_last, acquires) ==
    IF time_since_last < MinDelay
    THEN /\ domain_limits' = WithLimit(domain_limits, domain, dl)
         /\ callers' = [callers EXCEPT ![c] =
                [pc |-> "sleep_spacing", domain |-> domain,
                 time_since_last |-> time_since_last,
                 wake |-> now + SpacingDelay(time_since_last),
                 acquires |-> acquires, releases |-> 0, outcome |-> "",
                 invocations |-> 0, last |-> ""]]
         /\ UNCHANGED permitted
    ELSE /\ domain_limits' =
                WithLimit(domain_limits, domain, RequestPermitted(dl, now))
         /\ callers' = [callers EXCEPT ![c] =
                [pc |-> "running", domain |-> domain, time_since_last |-> 0,
                 wake |-> 0, acquires |-> acquires, releases |-> 0,
                 outcome |-> "", invocations |-> 0, last |-> ""]]
         /\ permitted' = [permitted EXCEPT ![domain] = Remember(@, now)]

\* acquire from the moment the permit is taken to its next await or return
AcquireWithPermit(c, domain) ==
    LET dl0 == DomainLimit(domain_limits, domain, now)
        time_since_last == TimeSinceLast(dl0, now)
        dl == WindowRolled(dl0, now)
    IN  /\ sem' = SemaphoreAcquire(sem)
        /\ IF dl.request_count >= rcfg.requests_per_minute
           THEN /\ domain_limits' = WithLimit(domain_limits, domain, dl)
                /\ callers' = [callers EXCEPT ![c] =
                       [pc |-> "sleep_minute", domain |-> domain,
                        time_since_last |-> time_since_last,
                        wake |-> now + MinuteWait(dl, now),
                        acquires |-> 1, releases |-> 0, outcome |-> "",
                        invocations |-> 0, last |-> ""]]
                /\ UNCHANGED permitted
           ELSE AcquireSpacing(c, domain, dl, time_since_last, 1)

\* execute_request called: acquire runs up to its first suspension
ExecuteRequest ==
    /\ rstarted < MaxRequests
    /\ \E c \in Callers, domain \in Domains :
          /\ callers[c].pc = "idle"
          /\ IF SemaphoreLocked(sem)
             THEN /\ callers' = [callers EXCEPT ![c] =
                         [IdleCaller EXCEPT !.pc = "wait_permit",
                                            !.domain = domain]]
                  /\ UNCHANGED <<sem, domain_limits, permitted>>
             ELSE AcquireWithPermit(c, domain)
    /\ rstarted' = rstarted + 1
    /\ UNCHANGED <<laterVars, now, orchVars, rcfg, rticks, retry>>

\* a caller suspended in semaphore.acquire() gets a released permit
PermitGranted ==
    /\ \E c \in Callers :
          /\ callers[c].pc = "wait_permit"
          /\ ~SemaphoreLocked(sem)
          /\ AcquireWithPermit(c, callers[c].domain)
    /\ UNCHANGED <<laterVars, now, orchVars, rcfg, rstarted, rticks, retry>>

\* the sleep until the next minute is over
WakeMinute ==
    /\ \E c \in Callers :
          /\ callers[c].pc = "sleep_minute"
          /\ now >= callers[c].wake
          /\ AcquireSpacing(c, callers[c].domain,
                            WindowRestarted(domain_limits[callers[c].domain], now),
                            callers[c].time_since_last, callers[c].acquires)
    /\ UNCHANGED <<laterVars, now, orchVars, rcfg, sem, rstarted, rticks, retry>>

\* the spacing sleep is over: acquire returns
WakeSpacing ==
    /\ \E c \in Callers :
          LET domain == callers[c].domain
          IN  /\ callers[c].pc = "sleep_spacing"
              /\ now >= callers[c].wake
              /\ domain_limits' = WithLimit(domain_limits, domain,
                     RequestPermitted(domain_limits[domain], now))
              /\ callers' = [callers EXCEPT ![c].pc = "running",
                                            ![c].time_since_last = 0,
                                            ![c].wake = 0]
              /\ permitted' = [permitted EXCEPT ![domain] = Remember(@, now)]
    /\ UNCHANGED <<laterVars, now, orchVars, rcfg, sem, rstarted, rticks, retry>>

\* exceptions the wrapped operation can raise, and their classification by
\* RetryHandler
Exceptions == {"ConnectionError", "TimeoutError", "ValueError", "UnicodeError"}
Outcomes == {"ok"} \cup Exceptions

\* the classes an exception is an instance of (UnicodeError is a ValueError)
ClassesOf(e) == IF e = "UnicodeError" THEN {"UnicodeError", "ValueError"}
                ELSE {e}

\* self.non_retryable_exceptions
NonRetryableExceptions ==
    {"ValueError", "TypeError", "AttributeError", "KeyError", "ImportError"}

IsInstanceExactClass(e, classes) == e \in classes

\* isinstance(e, classes)
IsInstance(e, classes) == ClassesOf(e) \cap classes # {}

\* what one invocation of the operation passed to execute_request does
OperationOutcomes == {"ok", "ConnectionError", "ValueError"}

AcquireReturnedAlways(caller) == TRUE

\* execute_request line 211: acquire(domain) has returned to the caller
AcquireReturned(caller) == caller.pc = "running"

\* execute_with_retry inside execute_request has no attempt left to make: the
\* operation returned, raised a non-retryable error, or failed max_attempts
\* times
AttemptsOver(caller) ==
    \/ caller.last = "ok"
    \/ /\ caller.last # ""
       /\ \/ IsInstance(caller.last, NonRetryableExceptions)
          \/ caller.invocations >= MaxOperationAttempts

\* one attempt of execute_with_retry (line 214): the operation is invoked;
\* after a retryable failure the handler sleeps and the loop goes on
OperationAttempt ==
    /\ \E c \in Callers, e \in OperationOutcomes :
          /\ AcquireReturned(callers[c])
          /\ ~AttemptsOver(callers[c])
          /\ callers' = [callers EXCEPT ![c].invocations = @ + 1,
                                        ![c].last = e]
    /\ UNCHANGED <<laterVars, now, orchVars, rcfg, sem, domain_limits,
                   permitted, rstarted, rticks, retry>>

RequestCountedTwice(counters, raised) ==
    [total_requests |-> counters.total_requests + 2,
     successful_requests |-> counters.successful_requests + 1,
     failed_requests |-> counters.failed_requests + 1]

\* lines 217-218 and 223-224: the counters after one call has finished
RequestCounted(counters, raised) ==
    [total_requests |-> counters.total_requests + 1,
     successful_requests |->
         counters.successful_requests + (IF raised THEN 0 ELSE 1),
     failed_requests |-> counters.failed_requests + (IF raised THEN 1 ELSE 0)]

\* execute_with_retry returned or raised: the statistics are updated and the
\* finally block releases
ExecuteRequestReturn ==
    /\ \E c \in Callers :
          LET raised == callers[c].last # "ok"
          IN  /\ callers[c].pc = "running"
              /\ AttemptsOver(callers[c])
              /\ sem' = SemaphoreRelease(sem)
              /\ request_stats' = RequestCounted(request_stats, raised)
              /\ callers' = [callers EXCEPT ![c] =
                     [IdleCaller EXCEPT !.acquires = callers[c].acquires,
                                        !.releases = callers[c].releases + 1,
                                        !.outcome = IF raised THEN "raised"
                                                    ELSE "returned"]]
    /\ UNCHANGED <<deco, results_queue, failed_queue, qlast, qcount, lock,
                   threads, adapt, now, orchVars, rcfg, domain_limits,
                   permitted, rstarted, rticks, retry>>

\* time passes: one second, or up to the end of some caller's sleep
RateTick ==
    /\ rticks < MaxRateTicks
    /\ \E t \in {now + 1} \cup {callers[c].wake : c \in Callers} :
          /\ t > now
          /\ now' = t
    /\ rticks' = rticks + 1
    /\ UNCHANGED <<laterVars, orchVars, rcfg, sem, domain_limits, callers, permitted,
                   rstarted, retry>>

\* RetryHandler

AttemptsLeftButOne(attempt, max_attempts) == attempt + 1 < max_attempts

\* if attempt < self.config.max_attempts
AttemptsLeft(attempt, max_attempts) == attempt < max_attempts

\* last_exception = None
NoException == ""

LastExceptionKeepsFirst(previous, e) ==
    IF previous = NoException THEN e ELSE previous

\* last_exception = e
LastException(previous, e) == e

IdleRetry ==
    [pc |-> "idle", max_attempts |-> 1, script |-> <<>>, attempt |-> 0,
     invocations |-> 0, sleeps |-> 0, last_exception |-> NoException,
     result |-> None]

\* one pass of the for loop of execute_with_retry up to its await or exit
RetryAttempt ==
    /\ retry.pc = "attempt"
    /\ LET e == retry.script[retry.attempt]
           invoked == [retry EXCEPT !.invocations = @ + 1]
           caught == [invoked EXCEPT
                         !.last_exception = LastException(@, e)]
       IN  retry' =
             IF e = "ok"
             THEN [invoked EXCEPT !.pc = "done",
                      !.result = [kind |-> "returned",
                                  value |-> <<"result", retry.attempt>>]]
             ELSE IF IsInstance(e, NonRetryableExceptions)
             THEN [caught EXCEPT !.pc = "done",
                      !.result = [kind |-> "raised", error |-> e]]
             ELSE IF AttemptsLeft(retry.attempt, retry.max_attempts)
             THEN [caught EXCEPT !.pc = "backoff", !.sleeps = @ + 1]
             ELSE [caught EXCEPT !.pc = "done",
                      !.result = [kind |-> "raised",
                                  error |-> caught.last_exception]]
    /\ UNCHANGED <<laterVars, now, orchVars, rcfg, sem, domain_limits, callers,
                   permitted, rstarted, rticks>>

\* the backoff sleep is over: next attempt
RetryBackoffOver ==
    /\ retry.pc = "backoff"
    /\ retry' = [retry EXCEPT !.pc = "attempt", !.attempt = @ + 1]
    /\ UNCHANGED <<laterVars, now, orchVars, rcfg, sem, domain_limits, callers,
                   permitted, rstarted, rticks>>

LimiterStart(config) ==
    /\ rcfg = config
    /\ sem = config.max_concurrent
    /\ domain_limits = [d \in {} |-> None]
    /\ callers = [c \in Callers |-> IdleCaller]
    /\ permitted = [d \in Domains |-> <<>>]
    /\ rstarted = 0
    /\ rticks = 0

LimiterIdle ==
    /\ LimiterStart([requests_per_minute |-> 1, max_concurrent |-> 1])
    /\ retry = IdleRetry

-----------------------------------------------------------------------------
(* scraper/utils/exception_handler.py: handle_scraping_exceptions.  The sync *)
(* and the async wrapper run the same loop.                                 *)

ScrapingExceptions ==
    {"NavigationException", "ExtractionException", "RateLimitException"}

\* what one invocation of the wrapped function does
DecoratorOutcomes == {"ok", "RuntimeError", "ValueError"} \cup ScrapingExceptions

\* default_return: None unless the caller supplies a value
DefaultReturns == {<<"None">>, <<"default">>}

\* the sleep before the next attempt, in half seconds:
\* 1.0, 0.5, 2.0 or 1.0 seconds times (attempt + 1)
BackoffHalfSeconds(e, attempt) ==
    (CASE e = "NavigationException" -> 2
       [] e = "ExtractionException" -> 1
       [] e = "RateLimitException" -> 4
       [] OTHER -> 2) * (attempt + 1)

IdleDeco ==
    [pc |-> "idle", max_retries |-> 0, default_return |-> <<"None">>,
     script |-> <<>>, attempt |-> 0, invocations |-> 0, slept |-> 0,
     last_exception |-> NoException, result |-> None]

\* one pass of `for attempt in range(max_retries + 1)` up to its sleep or exit
DecoratorAttempt ==
    /\ deco.pc = "attempt"
    /\ LET e == deco.script[deco.attempt + 1]
           invoked == [deco EXCEPT !.invocations = @ + 1]
       IN  deco' =
             IF e = "ok"
             THEN [invoked EXCEPT !.pc = "done",
                      !.result = [kind |-> "returned",
                                  value |-> <<"result", deco.attempt>>]]
             ELSE IF deco.attempt < deco.max_retries
             THEN [invoked EXCEPT !.pc = "backoff", !.last_exception = e,
                      !.slept = @ + BackoffHalfSeconds(e, deco.attempt)]
             ELSE [invoked EXCEPT !.pc = "done", !.last_exception = e,
                      !.result = [kind |-> "returned",
                                  value |-> deco.default_return]]
    /\ UNCHANGED <<now, orchVars, limiterVars, results_queue, failed_queue,
                   qlast, qcount, lock, threads, adapt, request_stats>>

\* the sleep is over: continue with the next attempt
DecoratorBackoffOver ==
    /\ deco.pc = "backoff"
    /\ deco' = [deco EXCEPT !.pc = "attempt", !.attempt = @ + 1]
    /\ UNCHANGED <<now, orchVars, limiterVars, results_queue, failed_queue,
                   qlast, qcount, lock, threads, adapt, request_stats>>

-----------------------------------------------------------------------------
(* RabbitMQManager: three durable queues bound to one direct exchange.     *)
(* A queue is the sequence of its ready messages, head first.              *)

PROCESSING == "processing"
FAILED == "failed"

JobIds == {"j1", "j2"}
Statuses == {PENDING, PROCESSING, COMPLETED, FAILED}

\* ScrapingTask as the manager reads and writes it: its id and its status
Job(id, status) == [id |-> id, status |-> status]

MessageTransient(task) ==
    [body |-> task, message_id |-> task.id, delivery_mode |-> 1]

\* basic_publish(body=json.dumps(task.dict()), properties=BasicProperties(
\* delivery_mode=2, message_id=task.id, ...))
Message(task) ==
    [body |-> task, message_id |-> task.id, delivery_mode |-> 2]

\* the direct exchange: a message reaches the queue bound with its routing
\* key, and is dropped when no queue is bound with it
Deliver(queue, binding_key, routing_key, message) ==
    IF routing_key = binding_key THEN Append(queue, message) ELSE queue

\* get_task: one basic_get on the results queue, then one on the failed
\* queue. A match is acked (removed); a mismatch is nacked with requeue and
\* goes back to its place at the head.
GetTask(results, failed, task_id) ==
    IF results # <<>> /\ Head(results).body.id = task_id
    THEN [task |-> Head(results).body, results |-> Tail(results),
          failed |-> failed]
    ELSE IF failed # <<>> /\ Head(failed).body.id = task_id
    THEN [task |-> Head(failed).body, results |-> results,
          failed |-> Tail(failed)]
    ELSE [task |-> None, results |-> results, failed |-> failed]

RoutingKeyAlwaysTask(status) == "task"

\* update_task_status: the routing key for the new status
RoutingKey(status) ==
    IF status = COMPLETED THEN "result"
    ELSE IF status = FAILED THEN "failed"
    ELSE "task"

MessageCountIgnoresQueue(queue) == 0

\* queue_declare(passive=True).method.message_count
MessageCount(queue) == Len(queue)

ZeroStats == [pending |-> 0, completed |-> 0, failed |-> 0, total |-> 0]

\* the record of one RabbitMQManager call, before its outcome is filled in
\* failpoint names the broker call that raises during the call, if any
QueueCall(op, task_id, status, failpoint) ==
    [op |-> op, task_id |-> task_id, status |-> status,
     failpoint |-> failpoint, ok |-> FALSE, task |-> None, listed |-> <<>>, stats |-> ZeroStats, published |-> <<>>]

queueFrame == <<now, cache, hist, api, apiSeq, nextId, bg, lpc, lmsg, ltask,
                lres, lcalls, ldone, ltag, published, limiterVars, deco,
                lock, threads, adapt, request_stats>>

\* add_task(task): publish under the tasks routing key; False when the
\* publish raises
AddTask ==
    /\ qcount < MaxQueueOps
    /\ qcount' = qcount + 1
    /\ \E id \in JobIds, failpoint \in {"none", "publish"} :
          LET task == Job(id, PENDING)
              call == QueueCall("add_task", id, PENDING, failpoint)
          IN  IF failpoint = "publish"
              THEN /\ qlast' = call
                   /\ UNCHANGED tasks_queue
              ELSE /\ qlast' = [call EXCEPT !.ok = TRUE,
                                  !.published = <<[routing_key |-> "scraping",
                                                  message |-> Message(task)]>>]
                   /\ tasks_queue' = Deliver(tasks_queue, "scraping",
                                             "scraping", Message(task))
    /\ UNCHANGED <<results_queue, failed_queue, queueFrame>>

\* get_task(task_id); None when a broker call raises
GetTaskCall ==
    /\ qcount < MaxQueueOps
    /\ qcount' = qcount + 1
    /\ \E id \in JobIds, failpoint \in {"none", "get"} :
          LET call == QueueCall("get_task", id, "", failpoint)
              got == GetTask(results_queue, failed_queue, id)
          IN  IF failpoint = "get"
              THEN /\ qlast' = call
                   /\ UNCHANGED <<results_queue, failed_queue>>
              ELSE /\ qlast' = [call EXCEPT !.task = got.task]
                   /\ results_queue' = got.results
                   /\ failed_queue' = got.failed
    /\ UNCHANGED <<tasks_queue, queueFrame>>

\* list_tasks(): every message read from the results queue and then from
\* the failed queue is acked
ListTasks ==
    /\ qcount < MaxQueueOps
    /\ qcount' = qcount + 1
    /\ \E failpoint \in {"none", "get"} :
          LET call == QueueCall("list_tasks", "", "", failpoint)
              read == results_queue \o failed_queue
          IN  IF failpoint = "get"
              THEN /\ qlast' = call
                   /\ UNCHANGED <<results_queue, failed_queue>>
              ELSE /\ qlast' = [call EXCEPT
                                  !.listed = [i \in 1..Len(read) |-> read[i].body]]
                   /\ results_queue' = <<>>
                   /\ failed_queue' = <<>>
    /\ UNCHANGED <<tasks_queue, queueFrame>>

\* the common shape of update_task_status, update_task_completed and
\* update_task_failed: get_task, set the status, publish under routing_key.
\* failpoint says which broker call raises, if any.
Republish(op, task_id, status, routing_key, failpoint) ==
    LET call == QueueCall(op, task_id, status, failpoint)
        got == IF failpoint = "get"
               THEN [task |-> None, results |-> results_queue,
                     failed |-> failed_queue]
               ELSE GetTask(results_queue, failed_queue, task_id)
    IN  IF got.task = None
        THEN /\ qlast' = call
             /\ UNCHANGED <<tasks_queue, results_queue, failed_queue>>
        ELSE IF failpoint = "publish"
        THEN /\ qlast' = [call EXCEPT !.task = got.task]
             /\ results_queue' = got.results
             /\ failed_queue' = got.failed
             /\ UNCHANGED tasks_queue
        ELSE LET message == Message([got.task EXCEPT !.status = status])
             IN  /\ qlast' = [call EXCEPT !.ok = TRUE, !.task = got.task,
                                !.published = <<[routing_key |-> routing_key,
                                                message |-> message]>>]
                 /\ tasks_queue' = Deliver(tasks_queue, "scraping",
                                           routing_key, message)
                 /\ results_queue' = Deliver(got.results, "result",
                                             routing_key, message)
                 /\ failed_queue' = Deliver(got.failed, "failed",
                                            routing_key, message)

Failpoints == {"none", "get", "publish"}

UpdateTaskStatus ==
    /\ qcount < MaxQueueOps
    /\ qcount' = qcount + 1
    /\ \E id \in JobIds, status \in Statuses, failpoint \in Failpoints :
          Republish("update_task_status", id, status, RoutingKey(status),
                    failpoint)
    /\ UNCHANGED queueFrame

\* update_task_started(task_id) is update_task_status(task_id, PROCESSING)
UpdateTaskStarted ==
    /\ qcount < MaxQueueOps
    /\ qcount' = qcount + 1
    /\ \E id \in JobIds, failpoint \in Failpoints :
          Republish("update_task_started", id, PROCESSING,
                    RoutingKey(PROCESSING), failpoint)
    /\ UNCHANGED queueFrame

UpdateTaskCompleted ==
    /\ qcount < MaxQueueOps
    /\ qcount' = qcount + 1
    /\ \E id \in JobIds, failpoint \in Failpoints :
          Republish("update_task_completed", id, COMPLETED, "result",
                    failpoint)
    /\ UNCHANGED queueFrame

UpdateTaskFailed ==
    /\ qcount < MaxQueueOps
    /\ qcount' = qcount + 1
    /\ \E id \in JobIds, failpoint \in Failpoints :
          Republish("update_task_failed", id, FAILED, "failed", failpoint)
    /\ UNCHANGED queueFrame

\* get_queue_stats(): three passive declarations; zeros when one raises
GetQueueStats ==
    /\ qcount < MaxQueueOps
    /\ qcount' = qcount + 1
    /\ \E failpoint \in {"none", "declare"} :
          LET call == QueueCall("get_queue_stats", "", "", failpoint)
              pending == MessageCount(tasks_queue)
              completed == MessageCount(results_queue)
              failed == MessageCount(failed_queue)
          IN  qlast' = IF failpoint = "declare" THEN call
                       ELSE [call EXCEPT !.ok = TRUE,
                               !.stats = [pending |-> pending,
                                          completed |-> completed,
                                          failed |-> failed,
                                          total |-> pending + completed
                                                    + failed]]
    /\ UNCHANGED <<tasks_queue, results_queue, failed_queue, queueFrame>>

BrokerIdle ==
    /\ results_queue = <<>>
    /\ failed_queue = <<>>
    /\ qlast = None
    /\ qcount = 0

ThreadsIdle ==
    /\ lock = 0
    /\ threads = <<>>

\* ScrapingRateLimiter.__init__: the counters of self.stats
ZeroRequestStats ==
    [total_requests |-> 0, successful_requests |-> 0, failed_requests |-> 0]

ExtraIdle ==
    /\ adapt = None
    /\ request_stats = ZeroRequestStats

LaterIdle ==
    /\ deco = IdleDeco
    /\ BrokerIdle
    /\ ThreadsIdle
    /\ ExtraIdle

-----------------------------------------------------------------------------
(* The system: front door (event loop thread), Listener thread, publisher *)

OrchIdle ==
    /\ cache = EmptyCache
    /\ hist = [n |-> 0, ops |-> <<>>]
    /\ tasks_queue = <<>>
    /\ api = IdleApi
    /\ apiSeq = 0
    /\ nextId = 0
    /\ bg = {}
    /\ lpc = "idle"
    /\ lmsg = None
    /\ ltask = None
    /\ lres = None
    /\ lcalls = <<>>
    /\ ldone = FALSE
    /\ ltag = 0
    /\ published = 0

Init ==
    /\ now = 0
    /\ OrchIdle
    /\ LimiterIdle
    /\ LaterIdle

Next ==
    \/ CreateScrapingTaskBegin
    \/ CreateScrapingTaskFinish
    \/ ProcessScrapingTaskScrape
    \/ ProcessScrapingTaskFinish
    \/ PublisherSend
    \/ ListenerReceive
    \/ ListenerProcess
    \/ ListenerFinish
    \/ Tick

Spec == Init /\ [][Next]_vars

-----------------------------------------------------------------------------
(* The cache API called directly, as tests/manager/test_cache_manager.py does *)

DirectPages == 1..(MaxPage + 1)

DirectResponses(category, page) ==
    {ScrapingResponse(<<"uuid", 1>>, status, [text |-> "direct", count |-> 0],
                      MakeUrl(category, page), category, page, DefaultMaxProducts)
        : status \in {PENDING, COMPLETED}}

\* hist after one more call: the call count and the last two calls
Record(op) ==
    [n |-> hist.n + 1,
     ops |-> IF Len(hist.ops) < 2 THEN Append(hist.ops, op)
             ELSE <<hist.ops[2], op>>]

CallerUnchanged ==
    UNCHANGED <<limiterVars, laterVars, now, tasks_queue, api, apiSeq, nextId, bg, lpc, lmsg, ltask,
                lres, lcalls, ldone, ltag, published>>

DirectGet ==
    /\ hist.n < MaxHistOps
    /\ \E category \in DirectCategories, page \in DirectPages :
          LET got == CacheGet(cache, category, page, now)
          IN  /\ cache' = got.cache
              /\ hist' = Record([op |-> "get", category |-> category,
                                 page |-> page, response |-> None,
                                 result |-> got.result, t |-> now])
    /\ CallerUnchanged

DirectSet ==
    /\ hist.n < MaxHistOps
    /\ \E category \in DirectCategories, page \in DirectPages :
          \E response \in DirectResponses(category, page) :
              /\ cache' = CacheSet(cache, category, page, response, now)
              /\ hist' = Record([op |-> "set", category |-> category,
                                 page |-> page, response |-> response,
                                 result |-> None, t |-> now])
    /\ CallerUnchanged

DirectInvalidate ==
    /\ hist.n < MaxHistOps
    /\ \E category \in DirectCategories, page \in DirectPages :
          LET inv == CacheInvalidate(cache, category, page)
          IN  /\ cache' = inv.cache
              /\ hist' = Record([op |-> "invalidate", category |-> category,
                                 page |-> page, response |-> None,
                                 result |-> inv.result, t |-> now])
    /\ CallerUnchanged

DirectClear ==
    /\ hist.n < MaxHistOps
    /\ cache' = CacheClear(cache)
    /\ hist' = Record([op |-> "clear", category |-> <<>>, page |-> 0,
                       response |-> None, result |-> None, t |-> now])
    /\ CallerUnchanged

DirectListKeys ==
    /\ hist.n < MaxHistOps
    /\ LET listed == CacheListKeys(cache, now)
       IN  /\ cache' = listed.cache
           /\ hist' = Record([op |-> "list_keys", category |-> <<>>, page |-> 0,
                              response |-> None, result |-> listed.result,
                              t |-> now])
    /\ CallerUnchanged

DirectGetStats ==
    /\ hist.n < MaxHistOps
    /\ LET stats == CacheGetStats(cache, now)
       IN  /\ cache' = stats.cache
           /\ hist' = Record([op |-> "get_stats", category |-> <<>>, page |-> 0,
                              response |-> None, result |-> stats.result,
                              t |-> now])
    /\ CallerUnchanged

CacheNext ==
    \/ DirectGet
    \/ DirectSet
    \/ DirectInvalidate
    \/ DirectClear
    \/ DirectListKeys
    \/ DirectGetStats
    \/ Tick

CacheSpec == Init /\ [][CacheNext]_vars

-----------------------------------------------------------------------------
(* The rate limiter under concurrent execute_request calls *)

RateInit ==
    /\ now = EpochStart
    /\ OrchIdle
    /\ \E config \in RateLimitConfigs : LimiterStart(config)
    /\ retry = IdleRetry
    /\ LaterIdle

RateNext ==
    \/ ExecuteRequest
    \/ PermitGranted
    \/ WakeMinute
    \/ WakeSpacing
    \/ OperationAttempt
    \/ ExecuteRequestReturn
    \/ RateTick

RateSpec == RateInit /\ [][RateNext]_vars

-----------------------------------------------------------------------------
(* The rate limiter when time keeps passing and the event loop keeps running *)

\* the clock reaches the end of a caller's asyncio.sleep: the sleeps of
\* acquire (lines 70 and 80) are finite
SleepElapses(c) ==
    /\ callers[c].pc \in {"sleep_minute", "sleep_spacing"}
    /\ callers[c].wake > now
    /\ now' = callers[c].wake
    /\ UNCHANGED <<laterVars, orchVars, rcfg, sem, domain_limits, callers,
                   permitted, rstarted, rticks, retry>>

\* the clock is read only inside acquire, so time is advanced from the end
\* of one sleep to the end of the next
RateLiveNext ==
    \/ ExecuteRequest
    \/ PermitGranted
    \/ WakeMinute
    \/ WakeSpacing
    \/ OperationAttempt
    \/ ExecuteRequestReturn
    \/ \E c \in Callers : SleepElapses(c)

\* the step of the action that caller c takes
StepOf(action, c) == action /\ callers'[c] # callers[c]

\* the event loop resumes every coroutine that is ready: a sleeper whose time
\* has come, a caller whose acquire returned (execute_with_retry and the
\* finally block of execute_request run to their end), and the waiters of
\* asyncio.Semaphore, which are woken in the order they arrived
RateFairness ==
    \A c \in Callers :
        /\ WF_vars(SleepElapses(c))
        /\ WF_vars(StepOf(WakeMinute, c))
        /\ WF_vars(StepOf(WakeSpacing, c))
        /\ WF_vars(StepOf(OperationAttempt, c))
        /\ WF_vars(StepOf(ExecuteRequestReturn, c))
        /\ SF_vars(StepOf(PermitGranted, c))

RateLiveSpec == RateInit /\ [][RateLiveNext]_vars /\ RateFairness

-----------------------------------------------------------------------------
(* One execute_with_retry call, for every behaviour of the operation *)

Scripts == [1..MaxAttempts -> Outcomes]

RetryInit ==
    /\ now = EpochStart
    /\ OrchIdle
    /\ LimiterStart([requests_per_minute |-> 1, max_concurrent |-> 1])
    /\ \E max_attempts \in 1..MaxAttempts, script \in Scripts :
          retry = [IdleRetry EXCEPT !.pc = "attempt",
                                    !.max_attempts = max_attempts,
                                    !.script = script,
                                    !.attempt = 1]
    /\ LaterIdle

RetryNext ==
    \/ RetryAttempt
    \/ RetryBackoffOver

RetrySpec == RetryInit /\ [][RetryNext]_vars

-----------------------------------------------------------------------------
(* One call of a function wrapped by handle_scraping_exceptions *)

DecoratorScripts == [1..(MaxRetries + 1) -> DecoratorOutcomes]

DecoratorInit ==
    /\ now = EpochStart
    /\ OrchIdle
    /\ LimiterIdle
    /\ BrokerIdle
    /\ ThreadsIdle
    /\ ExtraIdle
    /\ \E max_retries \in 0..MaxRetries, script \in DecoratorScripts,
          default_return \in DefaultReturns :
          deco = [IdleDeco EXCEPT !.pc = "attempt",
                                  !.max_retries = max_retries,
                                  !.default_return = default_return,
                                  !.script = script]

DecoratorNext ==
    \/ DecoratorAttempt
    \/ DecoratorBackoffOver

DecoratorSpec == DecoratorInit /\ [][DecoratorNext]_vars

-----------------------------------------------------------------------------
(* The queue manager called directly against a broker whose results and    *)
(* failed queues already hold terminal jobs: the queues are durable and    *)
(* outlive the process.                                                    *)

\* the sequences of at most n messages carrying a job in the given status
QueueContents(status, n) ==
    UNION {[1..k -> {Message(Job(id, status)) : id \in JobIds}] : k \in 0..n}

QueueInit ==
    /\ now = 0
    /\ OrchIdle
    /\ LimiterIdle
    /\ deco = IdleDeco
    /\ ThreadsIdle
    /\ ExtraIdle
    /\ results_queue \in QueueContents(COMPLETED, MaxQueued)
    /\ failed_queue \in QueueContents(FAILED, MaxQueued)
    /\ qlast = None
    /\ qcount = 0

QueueNext ==
    \/ AddTask
    \/ GetTaskCall
    \/ ListTasks
    \/ UpdateTaskStatus
    \/ UpdateTaskStarted
    \/ UpdateTaskCompleted
    \/ UpdateTaskFailed
    \/ GetQueueStats

QueueSpec == QueueInit /\ [][QueueNext]_vars

-----------------------------------------------------------------------------
(* CacheManager under threads: the event loop thread of the API and the    *)
(* Listener thread share one CacheManager.  A thread can be preempted      *)
(* anywhere, so a call is a sequence of steps: the part before             *)
(* `with self._lock`, the acquisition, each statement of the block, and    *)
(* the release on leaving the block.                                       *)

Threads == 1..2

LockCategories == {UpperMLU, UpperMLA}

LockOps == {"get", "set", "invalidate", "clear", "get_stats", "list_keys"}

\* the arguments a call of op can be made with
CallArgs(op) ==
    IF op = "set"
    THEN UNION {{[category |-> category, page |-> DefaultPage,
                  response |-> response]
                    : response \in DirectResponses(category, DefaultPage)}
                : category \in LockCategories}
    ELSE IF op \in {"get", "invalidate"}
    THEN {[category |-> category, page |-> DefaultPage, response |-> None]
            : category \in LockCategories}
    ELSE {[category |-> <<>>, page |-> 0, response |-> None]}

\* t and t2 are the values of time.time() the call has read; seen is the map
\* at the moment the lock was taken
IdleThread ==
    [pc |-> "idle", op |-> "", category |-> <<>>, page |-> 0,
     response |-> None, t |-> 0, t2 |-> 0, seen |-> EmptyCache,
     result |-> None, raised |-> "", calls |-> 0]

\* the first statement inside `with self._lock` of each method
FirstStep(op) ==
    IF op \in {"get", "get_stats", "list_keys"} THEN "sweep"
    ELSE IF op = "set" THEN "write"
    ELSE IF op = "invalidate" THEN "check"
    ELSE "clear"

LockAlwaysFree(l) == TRUE

\* threading.Lock: acquire blocks while a thread holds the lock
LockFree(l) == l = 0

lockFrame == <<now, hist, tasks_queue, api, apiSeq, nextId, bg, lpc, lmsg,
               ltask, lres, lcalls, ldone, ltag, published, limiterVars,
               deco, results_queue, failed_queue, qlast, qcount, adapt,
               request_stats>>

\* a thread calls a method: the key is computed, and set reads the clock,
\* before the lock is asked for
CacheCall ==
    /\ \E th \in Threads, op \in LockOps :
          /\ threads[th].pc = "idle"
          /\ threads[th].calls < MaxThreadCalls
          /\ \E args \in CallArgs(op) :
                threads' = [threads EXCEPT ![th] =
                    [pc |-> "acquire", op |-> op, category |-> args.category,
                     page |-> args.page, response |-> args.response,
                     t |-> IF op = "set" THEN now ELSE 0, t2 |-> 0,
                     seen |-> EmptyCache, result |-> None, raised |-> "",
                     calls |-> threads[th].calls]]
    /\ UNCHANGED <<cache, lock, lockFrame>>

\* with self._lock: entered
LockAcquire ==
    /\ \E th \in Threads :
          /\ threads[th].pc = "acquire"
          /\ LockFree(lock)
          /\ lock' = th
          /\ threads' = [threads EXCEPT ![th].pc = FirstStep(threads[th].op),
                                        ![th].seen = cache]
    /\ UNCHANGED <<cache, lockFrame>>

\* self._cleanup_expired() in get, get_stats and list_keys
ThreadSweep ==
    /\ \E th \in Threads :
          /\ threads[th].pc = "sweep"
          /\ cache' = CleanupExpired(cache, now)
          /\ threads' = [threads EXCEPT
                 ![th].pc = IF threads[th].op = "get" THEN "lookup" ELSE "read",
                 ![th].t = now]
    /\ UNCHANGED <<lock, lockFrame>>

\* get: the lookup after the sweep, with its own _is_expired test
ThreadLookup ==
    /\ \E th \in Threads :
          /\ threads[th].pc = "lookup"
          /\ LET key == GenerateKey(threads[th].category, threads[th].page)
                 hit == key \in DOMAIN cache /\ ~IsExpired(cache[key], now)
             IN  /\ cache' = IF key \in DOMAIN cache /\ ~hit
                             THEN [k \in DOMAIN cache \ {key} |-> cache[k]]
                             ELSE cache
                 /\ threads' = [threads EXCEPT ![th].pc = "release",
                        ![th].t2 = now,
                        ![th].result = IF hit THEN cache[key].data ELSE None]
    /\ UNCHANGED <<lock, lockFrame>>

\* get_stats and list_keys: reading the swept map
ThreadRead ==
    /\ \E th \in Threads :
          /\ threads[th].pc = "read"
          /\ threads' = [threads EXCEPT ![th].pc = "release",
                 ![th].result =
                     IF threads[th].op = "get_stats"
                     THEN [total_entries |-> Cardinality(DOMAIN cache),
                           ttl_seconds |-> TtlSeconds]
                     ELSE DOMAIN cache]
    /\ UNCHANGED <<cache, lock, lockFrame>>

\* set: self._cache[key] = entry, the entry built from the clock read before
ThreadWrite ==
    /\ \E th \in Threads :
          /\ threads[th].pc = "write"
          /\ cache' = CacheSet(cache, threads[th].category, threads[th].page,
                               threads[th].response, threads[th].t)
          /\ threads' = [threads EXCEPT ![th].pc = "release"]
    /\ UNCHANGED <<lock, lockFrame>>

\* invalidate: if key in self._cache
ThreadCheck ==
    /\ \E th \in Threads :
          /\ threads[th].pc = "check"
          /\ LET found == GenerateKey(threads[th].category, threads[th].page)
                              \in DOMAIN cache
             IN  threads' = [threads EXCEPT
                     ![th].pc = IF found THEN "delete" ELSE "release",
                     ![th].result = found]
    /\ UNCHANGED <<cache, lock, lockFrame>>

\* invalidate: del self._cache[key], a KeyError when the key has gone
ThreadDelete ==
    /\ \E th \in Threads :
          /\ threads[th].pc = "delete"
          /\ LET key == GenerateKey(threads[th].category, threads[th].page)
             IN  IF key \in DOMAIN cache
                 THEN /\ cache' = [k \in DOMAIN cache \ {key} |-> cache[k]]
                      /\ threads' = [threads EXCEPT ![th].pc = "release"]
                 ELSE /\ cache' = cache
                      /\ threads' = [threads EXCEPT ![th].pc = "release",
                                        ![th].raised = "KeyError"]
    /\ UNCHANGED <<lock, lockFrame>>

\* clear: self._cache.clear()
ThreadClear ==
    /\ \E th \in Threads :
          /\ threads[th].pc = "clear"
          /\ cache' = CacheClear(cache)
          /\ threads' = [threads EXCEPT ![th].pc = "release"]
    /\ UNCHANGED <<lock, lockFrame>>

\* the with block is left: the lock is released and the call returns
LockRelease ==
    /\ \E th \in Threads :
          /\ threads[th].pc = "release"
          /\ lock' = 0
          /\ threads' = [threads EXCEPT ![th].pc = "idle",
                                        ![th].calls = @ + 1]
    /\ UNCHANGED <<cache, lockFrame>>

\* two threads calling the shared CacheManager while time passes
LockInit ==
    /\ now = 0
    /\ OrchIdle
    /\ LimiterIdle
    /\ deco = IdleDeco
    /\ BrokerIdle
    /\ ExtraIdle
    /\ lock = 0
    /\ threads = [th \in Threads |-> IdleThread]

LockNext ==
    \/ CacheCall
    \/ LockAcquire
    \/ ThreadSweep
    \/ ThreadLookup
    \/ ThreadRead
    \/ ThreadWrite
    \/ ThreadCheck
    \/ ThreadDelete
    \/ ThreadClear
    \/ LockRelease
    \/ Tick

LockSpec == LockInit /\ [][LockNext]_vars

-----------------------------------------------------------------------------
(* One call of _adapt_message_format, for decoded messages of every shape *)

\* a dict holding the key k when present, and no key otherwise
Item(present, k, v) == IF present THEN (k :> v) ELSE <<>>

\* decoded JSON objects built from the keys the method looks at: each key is
\* there or not, page is 0 when absent, metadata is absent, {} or
\* {"max_products": 25}
AdaptMessages ==
    {Item(id, "id", <<"msg", 1>>)
        @@ Item(url, "url", MakeUrl(UpperMLU, DefaultPage))
        @@ Item(category, "category", UpperMLU)
        @@ Item(page # 0, "page", page)
        @@ Item(metadata # "absent", "metadata",
                IF metadata = "given" THEN [max_products |-> 25]
                ELSE [x \in {} |-> 0])
        @@ Item(timestamp, "timestamp", EpochStart)
        @@ Item(request, "request",
                [url |-> MakeUrl(UpperMLA, DefaultPage), category |-> UpperMLA,
                 page |-> DefaultPage, max_products |-> DefaultMaxProducts])
        @@ Item(status, "status", COMPLETED)
        @@ Item(created_at, "created_at", EpochStart)
        : id \in BOOLEAN, url \in BOOLEAN, category \in BOOLEAN,
          page \in 0..MaxAdaptPage, metadata \in {"absent", "empty", "given"},
          timestamp \in BOOLEAN, request \in BOOLEAN, status \in BOOLEAN,
          created_at \in BOOLEAN}

AdaptMessageFormatCall ==
    /\ adapt # None
    /\ adapt.pc = "call"
    /\ adapt' = [adapt EXCEPT !.pc = "done",
                    !.result = AdaptMessageFormat(adapt.message_data, now)]
    /\ UNCHANGED <<now, orchVars, limiterVars, deco, results_queue,
                   failed_queue, qlast, qcount, lock, threads, request_stats>>

AdaptInit ==
    /\ now = EpochStart + 1
    /\ OrchIdle
    /\ LimiterIdle
    /\ deco = IdleDeco
    /\ BrokerIdle
    /\ ThreadsIdle
    /\ request_stats = ZeroRequestStats
    /\ \E message_data \in AdaptMessages :
          adapt = [pc |-> "call", message_data |-> message_data,
                   result |-> None]

AdaptNext == AdaptMessageFormatCall

AdaptSpec == AdaptInit /\ [][AdaptNext]_vars

-----------------------------------------------------------------------------
(* Properties of the Listener *)

Count(calls, c) == Cardinality({i \in DOMAIN calls : calls[i] = c})
Has(calls, c) == \E i \in DOMAIN calls : calls[i] = c

\* the dedup key of a task
TaskKey(task) == GenerateKey(task.request.category, task.request.page)

\* the cache holds an entry for key that has not reached its expiry at time t
Unexpired(c, key, t) == key \in DOMAIN c /\ t < c[key].expires_at

\* C1: when extraction raises while a cache-miss message is processed, the
\* message is not acknowledged and basic_nack(requeue=True) is called instead
C1_ExtractionFailureIsNacked ==
    (ldone /\ Has(lcalls, "get") /\ Has(lcalls, "run_main_raised"))
        => (~Has(lcalls, "basic_ack") /\ Has(lcalls, "basic_nack"))

\* C2: for every delivered body _process_message ends having called exactly
\* one of basic_ack and basic_nack exactly once, and returns without raising
C2_ExactlyOneAckOrNack ==
    ldone => /\ Count(lcalls, "basic_ack") + Count(lcalls, "basic_nack") = 1
             /\ ~Has(lcalls, "raise")

\* C3: when extraction raises, cache.invalidate is called exactly once for the
\* task's key, cache.set is not called for the message, and when the failure
\* has been handled the cache holds no entry for that key
C3_FailureInvalidatesOnce ==
    [][(lpc = "finish" /\ lpc' = "idle" /\ lres.kind = "extract_failed")
        => /\ Count(lcalls', "invalidate") = 1
           /\ Count(lcalls', "set") = 0
           /\ TaskKey(ltask) \notin DOMAIN cache']_vars

\* C3 witness: extraction failed and was handled after the front door had
\* answered PENDING for a key, and the cache is empty
C3_Witness ==
    /\ ldone
    /\ Has(lcalls, "run_main_raised")
    /\ Has(lcalls, "invalidate")
    /\ api.pc = "idle"
    /\ api.response # None
    /\ ~api.hit
    /\ cache = EmptyCache
    /\ now = 0

\* C4: when insert_products raises, the key is invalidated, no COMPLETED entry
\* is written and the message is not acknowledged
C4_PersistenceFailureIsFailure ==
    (ldone /\ Has(lcalls, "insert_products_raised"))
        => /\ Has(lcalls, "invalidate")
           /\ ~Has(lcalls, "set")
           /\ ~Has(lcalls, "basic_ack")

\* C5: a message whose key has an unexpired cache entry is acknowledged without
\* processing; on a miss processing is invoked exactly once, before the
\* acknowledgement
C5_HitSkipsMissProcessesOnce ==
    /\ [][(ltag' # ltag /\ ParseTask(Head(tasks_queue), now).ok)
            => LET task == ParseTask(Head(tasks_queue), now).task
               IN  /\ Unexpired(cache, TaskKey(task), now)
                        => (lcalls' = <<"get", "basic_ack">> /\ ldone')
                   /\ CacheGet(cache, task.request.category,
                               task.request.page, now).result = None
                        => (lcalls' = <<"get">> /\ lpc' = "process")]_vars
    /\ [](lpc = "process" => lcalls = <<"get">>)
    /\ []((ldone /\ Has(lcalls, "get") /\ lcalls # <<"get", "basic_ack">>)
            => /\ Count(lcalls, "process") = 1
               /\ Count(lcalls, "basic_ack") = 1
               /\ lcalls[Len(lcalls)] = "basic_ack")

\* C5 witness: a delivery was acknowledged from the cache, without processing
C5_Witness ==
    /\ ldone
    /\ lcalls = <<"get", "basic_ack">>
    /\ cache # EmptyCache

\* C6: an unrecognized payload makes _adapt_message_format raise ValueError and
\* _process_message then calls basic_nack, with no ack and no extraction
C6_UnrecognizedIsNacked ==
    (ldone /\ Has(lcalls, "ValueError"))
        => /\ Has(lcalls, "basic_nack")
           /\ ~Has(lcalls, "basic_ack")
           /\ ~Has(lcalls, "run_main")

\* C7: when the Listener receives a message published by create_scraping_task,
\* that submission has already stored its PENDING placeholder
C7_PlaceholderBeforeDelivery ==
    [][(ltag' # ltag /\ Head(tasks_queue).json
            /\ "id" \in DOMAIN Head(tasks_queue).obj)
        => ~(api.pc = "publishing" /\ api.task_id = Head(tasks_queue).obj.id)]_vars

\* C31: with prefetch_count=1 and manual acknowledgement the Listener holds
\* at most one unacknowledged message: a message is delivered to it only when
\* every earlier delivery has been settled by exactly one basic_ack or
\* basic_nack, so message n+1 is not begun before message n is acked or
\* nacked.
C31_SequentialConsumption ==
    [][ltag' # ltag
        => /\ lpc = "idle"
           /\ ltag = 0 \/ (/\ ldone
                           /\ Count(lcalls, "basic_ack")
                                + Count(lcalls, "basic_nack") = 1)]_vars

\* the second message is being processed while a third waits in the queue
C31_Witness ==
    /\ ltag = 2
    /\ lpc = "process"
    /\ ~ldone
    /\ tasks_queue # <<>>

\* C32: _adapt_message_format returns a message that has the keys id,
\* request, status and created_at unchanged; from a legacy message (url and
\* category present) it builds status PENDING, request.url and
\* request.category copied, request.page the message's page or 1,
\* request.max_products the message's metadata.max_products or 50, and as id
\* the message's own id, or a generated auto-<timestamp> id when it has none.
C32_MessageNormalization ==
    (adapt # None /\ adapt.pc = "done")
    => LET m == adapt.message_data
           r == adapt.result
       IN  IF {"id", "request", "status", "created_at"} \subseteq DOMAIN m
           THEN r.ok /\ r.value = m
           ELSE ({"url", "category"} \subseteq DOMAIN m)
                => /\ r.ok
                   /\ DOMAIN r.value = {"id", "request", "status", "created_at"}
                   /\ r.value.status = "pending"
                   /\ r.value.request.url = m.url
                   /\ r.value.request.category = m.category
                   /\ r.value.request.page
                        = IF "page" \in DOMAIN m THEN m.page ELSE 1
                   /\ r.value.request.max_products
                        = IF "metadata" \in DOMAIN m
                             /\ "max_products" \in DOMAIN m.metadata
                          THEN m.metadata.max_products ELSE 50
                   /\ r.value.id = IF "id" \in DOMAIN m THEN m.id
                                   ELSE <<"auto", now>>

\* a legacy message with neither id, page nor metadata.max_products has been
\* adapted with the defaults and a generated id
C32_Witness ==
    /\ adapt # None
    /\ adapt.pc = "done"
    /\ DOMAIN adapt.message_data = {"url", "category", "metadata"}
    /\ adapt.result.ok
    /\ adapt.result.value.request.page = 1
    /\ adapt.result.value.request.max_products = 50
    /\ adapt.result.value.id = <<"auto", now>>

\* C38: when the Listener short-circuits a message on a cache hit it makes no
\* cache write (no set, no invalidate), no extraction and no persistence
\* call, and the cache entry of the message's key, its expiry time included,
\* is exactly what it was before the message arrived.
C38_HitPathFrame ==
    [][(/\ ltag' # ltag
        /\ ParseTask(Head(tasks_queue), now).ok
        /\ lpc' = "idle")
        => LET key == TaskKey(ParseTask(Head(tasks_queue), now).task)
           IN  /\ \A call \in {"set", "invalidate", "process", "run_main",
                                "insert_products"} : ~Has(lcalls', call)
               /\ ldone'
               /\ key \in DOMAIN cache
               /\ key \in DOMAIN cache'
               /\ cache'[key] = cache[key]]_vars

\* a message was short-circuited on an entry written at an earlier time, and
\* the entry still carries the expiry time it was written with
C38_Witness ==
    /\ ltag > 0
    /\ lpc = "idle"
    /\ ldone
    /\ lcalls = <<"get", "basic_ack">>
    /\ \E k \in DOMAIN cache : /\ cache[k].created_at < now
                                /\ cache[k].expires_at
                                     = cache[k].created_at + TtlSeconds

\* the positions of a call in the calls made for one delivery
C39_At(calls, c) == {i \in DOMAIN calls : calls[i] = c}

\* C39: for a message processed successfully the calls are made in the order
\* extraction, persistence, cache.set(COMPLETED), basic_ack; the message is
\* never acknowledged before its COMPLETED entry is written, and the entry
\* is never written before persistence succeeded.
C39_SuccessPathOrder ==
    /\ [][(lpc = "finish" /\ lres.kind = "saved" /\ lpc' # lpc)
            => LET key == TaskKey(ltask)
               IN  /\ \A c \in {"run_main", "insert_products", "set", "basic_ack"} :
                          Cardinality(C39_At(lcalls', c)) = 1
                   /\ \E e \in C39_At(lcalls', "run_main"),
                         p \in C39_At(lcalls', "insert_products"),
                         w \in C39_At(lcalls', "set"),
                         a \in C39_At(lcalls', "basic_ack") :
                          e < p /\ p < w /\ w < a
                   /\ key \in DOMAIN cache'
                   /\ cache'[key].data.status = COMPLETED
                   /\ cache'[key].data.task_id = ltask.id
                   /\ ldone']_vars
    /\ [](\A a \in C39_At(lcalls, "basic_ack") :
              (Has(lcalls, "insert_products")
               /\ ~Has(lcalls, "insert_products_raised"))
              => \E w \in C39_At(lcalls, "set") : w < a)
    /\ [](\A w \in C39_At(lcalls, "set") :
              /\ \E p \in C39_At(lcalls, "insert_products") : p < w
              /\ ~Has(lcalls, "run_main_raised")
              /\ ~Has(lcalls, "insert_products_raised"))

\* a delivery that missed the cache was extracted, persisted, cached and
\* acknowledged, in that order, and its COMPLETED entry is in the cache
C39_Witness ==
    /\ ldone
    /\ lpc = "idle"
    /\ lcalls = <<"get", "process", "run_main", "insert_products", "set",
                  "basic_ack">>
    /\ \E k \in DOMAIN cache : /\ cache[k].data.status = COMPLETED
                                /\ cache[k].created_at = now

-----------------------------------------------------------------------------
(* Properties of the front door *)

\* C8: while the cache holds an unexpired entry for a key, a submission for
\* that key, in any letter case of the category, returns the cached response
\* and publishes no Job
C8_FrontDoorDedup ==
    [][apiSeq' # apiSeq
        => LET key == GenerateKey(api'.raw, api'.request.page)
           IN  Unexpired(cache, key, now)
                 => /\ api'.pc = "idle"
                    /\ api'.hit
                    /\ api'.response = cache[key].data
                    /\ tasks_queue' = tasks_queue
                    /\ nextId' = nextId
                    /\ bg' = bg]_vars

\* C8 witness: a submission in lower case was answered with the PENDING
\* placeholder an earlier submission had stored
C8_Witness ==
    /\ api.pc = "idle"
    /\ api.hit
    /\ api.raw = LowerMLU
    /\ api.response.status = PENDING
    /\ Len(tasks_queue) = 1
    /\ nextId = 1

\* C9: a submission leaves a PENDING entry for its key; when processing of the
\* job completes with n records the entry is COMPLETED and its message holds
\* n; a submission that finds the COMPLETED entry returns it, publishes
\* nothing and schedules no extraction
C9_Lifecycle ==
    [][/\ (api.pc = "publishing" /\ api'.pc = "idle")
            => LET key == GenerateKey(api.request.category, api.request.page)
               IN  /\ key \in DOMAIN cache'
                   /\ cache'[key].data.status = PENDING
                   /\ cache'[key].data.task_id = api.task_id
                   /\ api'.response = cache'[key].data
       /\ \A b \in bg :
            (b.scraped /\ b \notin bg')
            => LET key == GenerateKey(b.request.category, b.request.page)
               IN  /\ key \in DOMAIN cache'
                   /\ cache'[key].data.status = COMPLETED
                   /\ cache'[key].data.task_id = b.task_id
                   /\ cache'[key].data.message.count = b.n
       /\ (lpc = "finish" /\ lpc' = "idle" /\ lres.kind = "saved")
            => /\ TaskKey(ltask) \in DOMAIN cache'
               /\ cache'[TaskKey(ltask)].data.status = COMPLETED
               /\ cache'[TaskKey(ltask)].data.task_id = ltask.id
               /\ cache'[TaskKey(ltask)].data.message.count = lres.n
       /\ apiSeq' # apiSeq
            => LET key == GenerateKey(api'.raw, api'.request.page)
               IN  (Unexpired(cache, key, now) /\ cache[key].data.status = COMPLETED)
                     => /\ api'.pc = "idle"
                        /\ api'.response = cache[key].data
                        /\ tasks_queue' = tasks_queue
                        /\ bg' = bg]_vars

\* C9 witness: the second submission was answered with the COMPLETED response
\* of the first submission's job, which found MaxProducts records
C9_Witness ==
    /\ api.pc = "idle"
    /\ api.hit
    /\ api.response.status = COMPLETED
    /\ api.response.task_id = <<"uuid", 1>>
    /\ api.response.message = [text |-> "completed", count |-> MaxProducts]
    /\ nextId = 1
    /\ bg = {}

-----------------------------------------------------------------------------
(* Properties of the cache *)

\* C10: a get issued right after set(category, page, r) returns r for every
\* spelling of the category that is equal ignoring case, and the set leaves
\* the entries and the answers of all other keys as they were
C10_RoundTrip ==
    \A category \in DirectCategories, page \in DirectPages :
      \A r \in DirectResponses(category, page) :
        LET stored == CacheSet(cache, category, page, r, now)
        IN  \A category2 \in DirectCategories, page2 \in DirectPages :
              IF Upper(category2) = Upper(category) /\ page2 = page
              THEN CacheGet(stored, category2, page2, now).result = r
              ELSE /\ CacheGet(stored, category2, page2, now).result
                        = CacheGet(cache, category2, page2, now).result
                   /\ \A k \in DOMAIN cache :
                        k = GenerateKey(category2, page2)
                            => (k \in DOMAIN stored /\ stored[k] = cache[k])

\* C10 witness: a get spelled in lower case, right after a set spelled in
\* upper case, returned the stored response while another key holds an entry
C10_Witness ==
    /\ Len(hist.ops) = 2
    /\ hist.ops[1].op = "set"
    /\ hist.ops[2].op = "get"
    /\ hist.ops[1].category = UpperMLU
    /\ hist.ops[2].category = LowerMLU
    /\ hist.ops[1].page = hist.ops[2].page
    /\ hist.ops[1].t = hist.ops[2].t
    /\ hist.ops[2].result = hist.ops[1].response
    /\ Cardinality(DOMAIN cache) = 2

\* C11: for every stored entry, at any time now >= expires_at (equality
\* included) get for its key returns absent and list_keys does not list it
C11_ExpiredIsAbsent ==
    \A category \in DirectCategories, page \in DirectPages :
        LET key == GenerateKey(category, page)
        IN  (key \in DOMAIN cache /\ now >= cache[key].expires_at)
              => /\ CacheGet(cache, category, page, now).result = None
                 /\ key \notin CacheListKeys(cache, now).result

\* C12: invalidate returns true exactly when a get just before it would have
\* returned the entry; afterwards get returns absent and the entries of all
\* other keys are as they were
C12_InvalidateIffPresent ==
    \A category \in DirectCategories, page \in DirectPages :
        LET key == GenerateKey(category, page)
            inv == CacheInvalidate(cache, category, page)
        IN  /\ inv.result <=> (CacheGet(cache, category, page, now).result # None)
            /\ CacheGet(inv.cache, category, page, now).result = None
            /\ \A k \in DOMAIN cache \ {key} :
                  k \in DOMAIN inv.cache /\ inv.cache[k] = cache[k]

\* C13: a set replaces whatever entry the key had, whatever its status, and
\* the new entry expires at the time of the set plus the configured TTL
C13_LastWriterWins ==
    [][(hist'.n = hist.n + 1 /\ hist'.ops[Len(hist'.ops)].op = "set")
        => LET op == hist'.ops[Len(hist'.ops)]
               key == GenerateKey(op.category, op.page)
           IN  /\ key \in DOMAIN cache'
               /\ cache'[key].data = op.response
               /\ cache'[key].created_at = now
               /\ cache'[key].expires_at = now + TtlSeconds
               /\ \A k \in DOMAIN cache \ {key} :
                     k \in DOMAIN cache' /\ cache'[k] = cache[k]]_vars

\* C13 witness: a PENDING entry stored at time 0 was replaced one TTL later by
\* a COMPLETED one, whose expiry is counted from the second set
C13_Witness ==
    /\ Len(hist.ops) = 2
    /\ hist.ops[1].op = "set"
    /\ hist.ops[2].op = "set"
    /\ hist.ops[1].category = UpperMLU
    /\ hist.ops[2].category = UpperMLU
    /\ hist.ops[1].page = 1
    /\ hist.ops[2].page = 1
    /\ hist.ops[1].response.status = PENDING
    /\ hist.ops[2].response.status = COMPLETED
    /\ hist.ops[1].t = 0
    /\ hist.ops[2].t = TickSeconds
    /\ cache[GenerateKey(UpperMLU, 1)].data.status = COMPLETED
    /\ cache[GenerateKey(UpperMLU, 1)].expires_at = TickSeconds + TtlSeconds

\* C28: every get and every set removes all entries that are expired at the
\* time of the call: after any get or set the backing map holds no expired
\* entry.
C28_NoExpiredAfterGetOrSet ==
    [][(hist'.n # hist.n
            /\ hist'.ops[Len(hist'.ops)].op \in {"get", "set"})
        => \A k \in DOMAIN cache' : ~(now > cache'[k].expires_at)]_vars


-----------------------------------------------------------------------------
(* Properties of the rate limiter *)

\* callers past the permit step of acquire whose release has not happened yet
Admitted == {c \in Callers :
                callers[c].pc \in {"sleep_minute", "sleep_spacing", "running"}}

\* C14: in every reachable state the callers past the permit step of acquire
\* and not yet matched by a release are at most max_concurrent, all domains
\* together
C14_ConcurrencyBound ==
    /\ Cardinality(Admitted) <= rcfg.max_concurrent
    /\ sem + Cardinality(Admitted) = rcfg.max_concurrent

\* C14 witness: every permit is taken and a further caller is suspended at
\* the permit step
C14_Witness ==
    /\ Cardinality(Admitted) = rcfg.max_concurrent
    /\ \E c \in Callers : callers[c].pc = "wait_permit"
    /\ \E c \in Admitted : callers[c].pc = "running"

\* C15: for every domain and every interval of 60 seconds, the acquires of
\* the domain permitted inside the interval are at most requests_per_minute
C15_PerMinuteCeiling ==
    \A d \in Domains :
        LET times == permitted[d]
            n == Len(times)
        IN  n > rcfg.requests_per_minute
              => times[n] - times[n - rcfg.requests_per_minute] >= WindowSeconds

\* C16: two consecutive permitted acquires of one domain are at least
\* 1 / max_requests_per_second apart, also with several callers inside
\* acquire for the domain
C16_MinimumSpacing ==
    \A d \in Domains :
        LET times == permitted[d]
            n == Len(times)
        IN  n >= 2 => times[n] - times[n - 1] >= MinDelay

\* C17 as stated: a caller of acquire for one domain is never made to wait
\* because of requests permitted for, or callers waiting on, another domain
C17_NeverWaitsForOtherDomain ==
    \A c \in Callers :
        callers[c].pc = "wait_permit"
          => \E h \in Admitted : callers[h].domain = callers[c].domain

\* C17: the timing waits of acquire depend on the caller's own domain only:
\* a caller that takes a permit returns at once when its domain's counter is
\* below the ceiling and the domain's last permitted request is at least the
\* minimum spacing ago, whatever the state of the other domains; it sleeps
\* only for a reason found in its own domain
C17_DomainTimingIndependent ==
    [][\A c \in Callers :
          (callers[c].pc \in {"idle", "wait_permit"}
             /\ callers'[c].pc \in {"sleep_minute", "sleep_spacing", "running"})
          => LET d == callers'[c].domain
                 known == d \in DOMAIN domain_limits
                 since == IF known THEN now - domain_limits[d].last_request_time
                          ELSE now
                 count == IF known /\ now - domain_limits[d].minute_start < WindowSeconds
                          THEN domain_limits[d].request_count ELSE 0
             IN  /\ (count < rcfg.requests_per_minute /\ since >= MinDelay)
                        <=> callers'[c].pc = "running"
                 /\ callers'[c].pc = "sleep_minute"
                        <=> count >= rcfg.requests_per_minute]_vars

\* C17 witness: a request for b.com was permitted without delay at the very
\* time a request for a.com was permitted and a caller sleeps for a.com
C17_Witness ==
    \E c1, c2 \in Callers :
        /\ callers[c1].pc = "sleep_spacing"
        /\ callers[c1].domain = "a.com"
        /\ callers[c2].pc = "running"
        /\ callers[c2].domain = "b.com"
        /\ domain_limits["a.com"].last_request_time = now
        /\ domain_limits["b.com"].last_request_time = now
        /\ permitted["b.com"] = <<now>>

\* C18: every execute_request call releases the permit exactly once for its
\* acquire, when the operation succeeds and when it fails, and never without
\* an acquire; with no call in flight the free permits are max_concurrent,
\* and they never exceed it
C18_PermitAccounting ==
    /\ sem <= rcfg.max_concurrent
    /\ (\A c \in Callers : callers[c].pc = "idle") => sem = rcfg.max_concurrent
    /\ \A c \in Callers :
          /\ callers[c].releases <= callers[c].acquires
          /\ callers[c].outcome # "" => (callers[c].acquires = 1
                                          /\ callers[c].releases = 1)
          /\ callers[c].pc # "idle" => callers[c].releases = 0
          /\ callers[c].pc = "wait_permit" => callers[c].acquires = 0

\* C18 witness: one call returned, one raised, none is in flight and every
\* permit is free again
C18_Witness ==
    /\ \E c1, c2 \in Callers :
          /\ callers[c1].outcome = "returned"
          /\ callers[c2].outcome = "raised"
    /\ \A c \in Callers : callers[c].pc = "idle"
    /\ sem = rcfg.max_concurrent
    /\ rstarted = MaxRequests

-----------------------------------------------------------------------------
(* Properties of the retry handler *)

\* the exceptions of the model by what the handler is required to do with
\* them: UnicodeError is a subclass of ValueError, ConnectionError is neither
\* one of the listed classes nor a subclass of one
NonRetryableErrors == {"ValueError", "UnicodeError"}
Retryable(e) == e \in Exceptions \ NonRetryableErrors

\* C19: when the operation raises retryable errors on its first k-1
\* invocations and succeeds on the k-th, k <= max_attempts, the call returns
\* that success value and the operation was invoked exactly k times
C19_RetrySuccess ==
    \A k \in 1..MaxAttempts :
        (/\ retry.pc = "done"
         /\ k <= retry.max_attempts
         /\ retry.script[k] = "ok"
         /\ \A i \in 1..(k - 1) : Retryable(retry.script[i]))
        => /\ retry.result = [kind |-> "returned", value |-> <<"result", k>>]
           /\ retry.invocations = k
           /\ retry.sleeps = k - 1

\* C19 witness: with max_attempts = 3 the operation failed twice and
\* succeeded on the third invocation
C19_Witness ==
    /\ retry.pc = "done"
    /\ retry.max_attempts = 3
    /\ retry.script = <<"ConnectionError", "ConnectionError", "ok">>
    /\ retry.result = [kind |-> "returned", value |-> <<"result", 3>>]
    /\ retry.invocations = 3

\* C20: when the operation raises a non-retryable error (one of the listed
\* classes or a subclass) on attempt j, after retryable errors only, the call
\* raises that error at once: no sleep follows and the operation is not
\* invoked again; raised on the first attempt, one invocation
C20_NonRetryablePropagates ==
    /\ \A j \in 1..MaxAttempts :
          (/\ retry.pc = "done"
           /\ j <= retry.max_attempts
           /\ retry.script[j] \in NonRetryableErrors
           /\ \A i \in 1..(j - 1) : Retryable(retry.script[i]))
          => /\ retry.result = [kind |-> "raised", error |-> retry.script[j]]
             /\ retry.invocations = j
             /\ retry.sleeps = j - 1
    /\ (retry.pc = "backoff") => Retryable(retry.last_exception)

\* C20 witness: a subclass of ValueError raised on the first attempt ended a
\* call that had three attempts after one invocation
C20_Witness ==
    /\ retry.pc = "done"
    /\ retry.max_attempts = 3
    /\ retry.script[1] = "UnicodeError"
    /\ retry.result = [kind |-> "raised", error |-> "UnicodeError"]
    /\ retry.invocations = 1
    /\ retry.sleeps = 0

\* C21: one call never invokes the operation more than max_attempts times,
\* and when all max_attempts invocations raise retryable errors the call
\* raises the exception of the last invocation
C21_RetryExhaustion ==
    /\ retry.invocations <= retry.max_attempts
    /\ (/\ retry.pc = "done"
        /\ \A i \in 1..retry.max_attempts : Retryable(retry.script[i]))
       => /\ retry.result = [kind |-> "raised",
                             error |-> retry.script[retry.max_attempts]]
          /\ retry.invocations = retry.max_attempts
          /\ retry.sleeps = retry.max_attempts - 1

\* C21 witness: three attempts failed, the first two with another error than
\* the last, and the call raised the last one
C21_Witness ==
    /\ retry.pc = "done"
    /\ retry.max_attempts = 3
    /\ retry.script = <<"ConnectionError", "ConnectionError", "TimeoutError">>
    /\ retry.result = [kind |-> "raised", error |-> "TimeoutError"]
    /\ retry.invocations = 3

-----------------------------------------------------------------------------
(* Properties of the exception-handling decorator *)

\* C22: when every attempt of a wrapped call failed, the failure is swallowed
\* and the fallback returned only if the caller supplied a default value;
\* with no default supplied the last exception is raised to the caller
C22_SwallowOnlyWithDefault ==
    (/\ deco.pc = "done"
     /\ \A i \in 1..(deco.max_retries + 1) : deco.script[i] # "ok")
    => IF deco.default_return # <<"None">>
       THEN deco.result = [kind |-> "returned", value |-> deco.default_return]
       ELSE deco.result = [kind |-> "raised",
                           error |-> deco.script[deco.max_retries + 1]]

-----------------------------------------------------------------------------
(* Properties of the queue manager *)

\* C23: add_task never raises: it returns True after publishing one message
\* under the tasks routing key whose body has the id of the job, with
\* message_id = job id and persistent delivery mode, and that message joins
\* the tasks queue; when the publish fails it returns False and nothing is
\* published.
C23_AddTask ==
    [][(qcount' # qcount /\ qlast'.op = "add_task")
        => IF qlast'.failpoint = "none"
           THEN /\ qlast'.ok
                /\ Len(qlast'.published) = 1
                /\ qlast'.published[1].routing_key = "scraping"
                /\ qlast'.published[1].message.body.id = qlast'.task_id
                /\ qlast'.published[1].message.message_id = qlast'.task_id
                /\ qlast'.published[1].message.delivery_mode = 2
                /\ tasks_queue' = Append(tasks_queue,
                                         qlast'.published[1].message)
           ELSE /\ ~qlast'.ok
                /\ qlast'.published = <<>>
                /\ tasks_queue' = tasks_queue]_vars

C23_Witness ==
    /\ qcount > 0
    /\ qlast.op = "add_task"
    /\ qlast.ok
    /\ tasks_queue # <<>>
    /\ tasks_queue[Len(tasks_queue)].body.id = "j1"

\* the calls that move a job to a terminal status
C24_Terminal(call) ==
    \/ call.op \in {"update_task_completed", "update_task_failed"}
    \/ call.op = "update_task_status" /\ call.status \in {COMPLETED, FAILED}

\* C24: update_task_completed and update_task_status(COMPLETED) republish
\* the job that get_task found with status COMPLETED under routing key
\* 'result', into the results queue; update_task_failed and
\* update_task_status(FAILED) republish it with status FAILED under 'failed',
\* into the failed queue; the call returns True after exactly one publish,
\* and returns False without publishing when the job is not found.
C24_TerminalRouting ==
    [][(qcount' # qcount /\ C24_Terminal(qlast'))
        => LET call == qlast'
               key == IF call.status = COMPLETED THEN "result" ELSE "failed"
               message == [body |-> [id |-> call.task_id,
                                     status |-> call.status],
                           message_id |-> call.task_id, delivery_mode |-> 2]
               target == IF call.status = COMPLETED THEN results_queue'
                         ELSE failed_queue'
           IN  /\ (call.task # None /\ call.failpoint = "none")
                    => /\ call.ok
                       /\ call.published = <<[routing_key |-> key,
                                             message |-> message]>>
                       /\ target # <<>>
                       /\ target[Len(target)] = message
               /\ call.task = None
                    => /\ ~call.ok
                       /\ call.published = <<>>
                       /\ UNCHANGED <<tasks_queue, results_queue,
                                      failed_queue>>
               /\ call.ok => Len(call.published) = 1
               /\ ~call.ok => call.published = <<>>]_vars

C24_Witness ==
    /\ qcount > 0
    /\ qlast.op = "update_task_status"
    /\ qlast.status = COMPLETED
    /\ qlast.ok
    /\ results_queue # <<>>
    /\ results_queue[Len(results_queue)].body = Job(qlast.task_id, COMPLETED)

\* C25: get_task(id) returns the job with that id whenever a message with
\* that id is in the results queue or the failed queue at any position, and
\* returns None only when there is no such message.
C25_GetTaskFindsAnyPosition ==
    [][(qcount' # qcount /\ qlast'.op = "get_task"
            /\ qlast'.failpoint = "none")
        => LET present ==
                 \/ \E i \in 1..Len(results_queue) :
                        results_queue[i].body.id = qlast'.task_id
                 \/ \E i \in 1..Len(failed_queue) :
                        failed_queue[i].body.id = qlast'.task_id
           IN  IF present
               THEN /\ qlast'.task # None
                    /\ qlast'.task.id = qlast'.task_id
               ELSE qlast'.task = None]_vars

\* C26: over any sequence of queue manager calls the status of a job only
\* moves along PENDING -> PROCESSING -> {COMPLETED, FAILED}: a job read as
\* COMPLETED or FAILED is never republished with another status and a
\* PROCESSING job is never republished as PENDING.
C26_StatusMonotonic ==
    [][(qcount' # qcount /\ qlast'.task # None)
        => \A i \in 1..Len(qlast'.published) :
              LET old == qlast'.task.status
                  new == qlast'.published[i].message.body.status
              IN  /\ old \in {COMPLETED, FAILED} => new = old
                  /\ old = PROCESSING => new # PENDING]_vars

\* C27: get_queue_stats reports pending, completed and failed as the message
\* counts of the tasks, results and failed queues, with total their sum,
\* and changes no queue; when the broker call fails all four counts are 0.
C27_QueueStats ==
    [][(qcount' # qcount /\ qlast'.op = "get_queue_stats")
        => /\ UNCHANGED <<tasks_queue, results_queue, failed_queue>>
           /\ qlast'.stats =
                IF qlast'.failpoint = "none"
                THEN [pending |-> Len(tasks_queue),
                      completed |-> Len(results_queue),
                      failed |-> Len(failed_queue),
                      total |-> Len(tasks_queue) + Len(results_queue)
                                + Len(failed_queue)]
                ELSE [pending |-> 0, completed |-> 0, failed |-> 0,
                      total |-> 0]]_vars

C27_Witness ==
    /\ qcount > 0
    /\ qlast.op = "get_queue_stats"
    /\ qlast.failpoint = "none"
    /\ qlast.stats.pending = 1
    /\ qlast.stats.completed = 2
    /\ qlast.stats.total > 3

-----------------------------------------------------------------------------
(* Properties of the cache under threads *)

\* the positions of a thread between taking and releasing the lock
C29_Inside ==
    {"sweep", "lookup", "read", "write", "check", "delete", "clear", "release"}

\* get as one indivisible operation on the map c, with the clock read as t1
\* by the sweep and as t2 by the lookup
C29_Get(c, category, page, t1, t2) ==
    LET key == GenerateKey(category, page)
        swept == [k \in {k \in DOMAIN c : c[k].expires_at >= t1} |-> c[k]]
    IN  IF key \in DOMAIN swept /\ swept[key].expires_at >= t2
        THEN [result |-> swept[key].data, cache |-> swept]
        ELSE [result |-> None,
              cache |-> [k \in DOMAIN swept \ {key} |-> swept[k]]]

\* the call of thread record th as one indivisible operation on the map it
\* found when it took the lock
C29_Sequential(th) ==
    IF th.op = "get"
    THEN C29_Get(th.seen, th.category, th.page, th.t, th.t2)
    ELSE IF th.op = "set"
    THEN [result |-> None,
          cache |-> CacheSet(th.seen, th.category, th.page, th.response, th.t)]
    ELSE IF th.op = "invalidate"
    THEN CacheInvalidate(th.seen, th.category, th.page)
    ELSE IF th.op = "clear"
    THEN [result |-> None, cache |-> CacheClear(th.seen)]
    ELSE IF th.op = "get_stats"
    THEN CacheGetStats(th.seen, th.t)
    ELSE CacheListKeys(th.seen, th.t)

\* C29: with the API thread and the Listener thread calling get, set,
\* invalidate, clear, get_stats and list_keys in any interleaving, at most
\* one thread is inside the lock, the map does not change under a thread
\* that is inside the lock except by that thread's own steps, and every call
\* returns the result and leaves the map that the same call gives as one
\* indivisible operation on the map it found when it took the lock (so the
\* outcome is that of the calls run one after another in the order in which
\* they took the lock).
C29_CacheAtomic ==
    [][/\ Cardinality({th \in Threads : threads[th].pc \in C29_Inside}) <= 1
       /\ \A th \in Threads :
             (threads[th].pc \in C29_Inside /\ threads'[th].pc = threads[th].pc)
                => cache' = cache
       /\ \A th \in Threads :
             (threads[th].pc = "release" /\ threads'[th].pc = "idle")
                => /\ threads[th].raised = ""
                   /\ threads[th].result = C29_Sequential(threads[th]).result
                   /\ cache = C29_Sequential(threads[th]).cache]_vars

\* the Listener thread waits for the lock with a set while the API thread,
\* inside the lock, has swept and hit on the same key
C29_Witness ==
    /\ threads[1].pc = "release"
    /\ threads[1].op = "get"
    /\ threads[1].result # None
    /\ threads[2].pc = "acquire"
    /\ threads[2].op = "set"
    /\ threads[2].category = threads[1].category
    /\ threads[2].calls = 1

-----------------------------------------------------------------------------
(* Properties of the dedup race *)

\* C30: dedup is check-then-act, not atomic.  The front door and the
\* Listener each decide on their own lookup, and neither looks again: a
\* Listener whose lookup finds no entry for the key of the delivered task
\* goes on to extraction, also while the front door that published the task
\* is still between its own miss and its cache write; a Listener goes on to
\* extraction only after such a miss; the front door, having missed,
\* schedules its background extraction whatever the Listener is doing; and
\* once started, the Listener's extraction runs whatever has been cached
\* meanwhile.  So both can do the extraction work for one key.
C30_CheckThenAct ==
    [][/\ (ltag' # ltag /\ ParseTask(Head(tasks_queue), now).ok)
            => LET key == TaskKey(ParseTask(Head(tasks_queue), now).task)
               IN  /\ key \notin DOMAIN cache => lpc' = "process"
                   /\ lpc' = "process" => ~Unexpired(cache, key, now)
       /\ (api.pc = "publishing" /\ api'.pc = "idle")
            => \E b \in bg' \ bg : b.task_id = api.task_id /\ ~b.scraped
       /\ (lpc = "process" /\ lpc' # lpc)
            => lpc' = "finish" /\ lres' # None]_vars

\* the front door's background task and the Listener have both extracted
\* for the one task that was ever published, and no time has passed, so the
\* Listener's miss came before the front door wrote the PENDING entry
C30_Witness ==
    /\ now = 0
    /\ nextId = 1
    /\ published = 0
    /\ lpc = "finish"
    /\ lres # None
    /\ lres.kind = "saved"
    /\ \E b \in bg : b.scraped /\ b.task_id = ltask.id
                     /\ TaskKey(ltask) = GenerateKey(b.request.category,
                                                     b.request.page)

\* C33: a function wrapped by handle_scraping_exceptions that raises a
\* non-retryable error (here ValueError) is not retried: it is invoked
\* exactly once and the error propagates to the caller.
C33_NonRetryablePropagates ==
    /\ (deco.pc # "idle" /\ deco.script[1] = "ValueError")
          => deco.invocations <= 1 /\ deco.pc # "backoff"
    /\ (deco.pc = "done" /\ deco.script[1] = "ValueError")
          => /\ deco.invocations = 1
             /\ deco.result = [kind |-> "raised", error |-> "ValueError"]

-----------------------------------------------------------------------------
(* Properties of execute_request *)

\* C34: in execute_request the wrapped operation is invoked, on its first
\* attempt and on every retry, only after acquire(domain) has returned and
\* before the matching release; a call whose acquire has not completed has
\* not invoked the operation.
C34_AdmissionBeforeWork ==
    [][\A c \in Callers :
          /\ callers'[c].invocations > callers[c].invocations
                => /\ callers[c].pc = "running"
                   /\ callers[c].acquires = 1
                   /\ callers[c].releases = 0
                   /\ sem < rcfg.max_concurrent
          /\ callers'[c].pc \in {"wait_permit", "sleep_minute", "sleep_spacing"}
                => callers'[c].invocations = 0]_vars

\* a caller is retrying the operation inside its admission while another
\* call, still waiting for a permit, has not invoked its operation
C34_Witness ==
    \E c1, c2 \in Callers :
        /\ callers[c1].pc = "running"
        /\ callers[c1].invocations = 2
        /\ callers[c1].releases = 0
        /\ callers[c2].pc = "wait_permit"
        /\ callers[c2].invocations = 0

\* C37: after any sequence of execute_request calls, total_requests =
\* successful_requests + failed_requests = the number of calls that have
\* finished, each finished call having added one to successful_requests when
\* it returned and one to failed_requests when it raised, however many
\* attempts it made.
C37_RequestStatistics ==
    [][/\ request_stats'.total_requests
            = request_stats'.successful_requests
              + request_stats'.failed_requests
       /\ request_stats'.total_requests
            = rstarted' - Cardinality({c \in Callers : callers'[c].pc # "idle"})
       /\ \A c \in Callers :
             (callers[c].pc = "running" /\ callers'[c].pc = "idle")
                => IF callers'[c].outcome = "returned"
                   THEN /\ callers[c].last = "ok"
                        /\ request_stats'.successful_requests
                             = request_stats.successful_requests + 1
                        /\ request_stats'.failed_requests
                             = request_stats.failed_requests
                   ELSE /\ callers[c].last # "ok"
                        /\ request_stats'.failed_requests
                             = request_stats.failed_requests + 1
                        /\ request_stats'.successful_requests
                             = request_stats.successful_requests]_vars

\* one call has returned, one has raised, and a third is on its second
\* attempt
C37_Witness ==
    /\ request_stats = [total_requests |-> 2, successful_requests |-> 1,
                        failed_requests |-> 1]
    /\ \E c \in Callers : callers[c].pc = "running" /\ callers[c].invocations = 2

-----------------------------------------------------------------------------
(* Properties of the queue manager: conservation *)

\* the number of messages in queue that carry the job id
C35_Held(queue, id) ==
    Cardinality({i \in 1..Len(queue) : queue[i].body.id = id})

\* C35: whenever update_task_status, update_task_started,
\* update_task_completed or update_task_failed returns True for a job id, the
\* job it republished is afterwards held in one of the three queues: the
\* message it published has been delivered to the tasks, results or failed
\* queue and is not lost.
C35_JobConservation ==
    [][(/\ qcount' # qcount
        /\ qlast'.op \in {"update_task_status", "update_task_started",
                          "update_task_completed", "update_task_failed"}
        /\ qlast'.ok)
        => /\ C35_Held(tasks_queue', qlast'.task_id)
                + C35_Held(results_queue', qlast'.task_id)
                + C35_Held(failed_queue', qlast'.task_id) >= 1
           /\ \E queue \in {tasks_queue', results_queue', failed_queue'} :
                 /\ queue # <<>>
                 /\ queue[Len(queue)] = qlast'.published[1].message]_vars

\* the jobs stored in the results and failed queues, as a bag
C36_Stored(results, failed) ==
    LET all == results \o failed
    IN  [job \in {all[i].body : i \in 1..Len(all)}
            |-> Cardinality({i \in 1..Len(all) : all[i].body = job})]

\* C36: get_task and list_tasks are peeks: after either call returns, the
\* results and failed queues store the same jobs as before the call.
C36_ReadsPreserveQueues ==
    [][(qcount' # qcount /\ qlast'.op \in {"get_task", "list_tasks"})
        => C36_Stored(results_queue', failed_queue')
             = C36_Stored(results_queue, failed_queue)]_vars

-----------------------------------------------------------------------------
(* Properties of the rate limiter: progress *)

\* the caller is suspended inside acquire: on the semaphore, in the sleep
\* until the next minute, or in the spacing sleep
C40_InAcquire(c) ==
    callers[c].pc \in {"wait_permit", "sleep_minute", "sleep_spacing"}

====
